---- MODULE Spec2Model ----
(***************************************************************************)
(* Virtual filesystem engines of the terminal emulator variants            *)
(* (sonoma-sky-alpha, sonoma-dusk-alpha, grok-code-fast-1, glm-4.5).       *)
(*                                                                         *)
(* A string is a sequence of tokens.  The characters the code inspects     *)
(* ("/", ".", "~", "-", "\n") are tokens of their own; every other token   *)
(* is a run of ordinary characters ("home", "a").  String concatenation    *)
(* is \o, so strings.Split, filepath.Split/Dir/Base/Clean and the          *)
(* comparisons with "." and ".." act exactly as on the Go strings          *)
(* (path/filepath with the "/" separator).                                 *)
(*                                                                         *)
(* The heap is a sequence of VirtualFile records; a pointer is an index    *)
(* into it and Nil is the nil pointer.  Nodes are never freed (they may    *)
(* stay referenced by CurrentDir/PrevDir after being detached).            *)
(* ModTime and Permissions are not modelled.                               *)
(*                                                                         *)
(* Every operation is an operator from a state [heap, cur, prev] to the    *)
(* SET of outcomes [heap, cur, prev, err] it can produce; the set has      *)
(* more than one element only where Go leaves the order of a range over    *)
(* a map open.  err is "nil" or the error text; "PANIC" is a runtime       *)
(* panic or stack exhaustion, "HANG" a loop that never returns.            *)
(***************************************************************************)
EXTENDS Integers, Sequences, FiniteSets, TLC

VARIABLES heap, CurrentDir, PrevDir, last, pre, calls

vars == <<heap, CurrentDir, PrevDir, last, pre, calls>>

\* ---------------------------------------------------------------- bounds
\* the number of calls in a session
MaxCalls == 3
\* the number of characters in a command line given to ParseCommand
MaxInput == 4

\* ------------------------------------------------------- strings and maps
Nil == 0
Root == 1

RegularFile == "RegularFile"
Directory == "Directory"

S(t) == <<t>>
Slash == <<"/">>
Dot == <<".">>
DotDot == <<".", ".">>
Tilde == <<"~">>
Dash == <<"-">>
Newline == <<"\n">>
HomePath == <<"/", "home", "/", "user">>

HasPrefix(s, p) == Len(s) >= Len(p) /\ SubSeq(s, 1, Len(p)) = p

HasSuffix(s, p) == Len(s) >= Len(p) /\ SubSeq(s, Len(s) - Len(p) + 1, Len(s)) = p

ContainsSlash(s) == \E i \in 1..Len(s) : s[i] = "/"

\* strings.Index(s, "/"), 1-based; 0 when absent
IndexSlash(s) ==
  IF ContainsSlash(s) THEN CHOOSE i \in 1..Len(s) : s[i] = "/" /\ \A j \in 1..(i-1) : s[j] # "/"
  ELSE 0

\* strings.LastIndex(s, "/"), 1-based; 0 when absent
LastIndexSlash(s) ==
  IF ContainsSlash(s) THEN CHOOSE i \in 1..Len(s) : s[i] = "/" /\ \A j \in (i+1)..Len(s) : s[j] # "/"
  ELSE 0

RECURSIVE SplitSlash(_)
\* strings.Split(s, "/")
SplitSlash(s) ==
  IF ~ContainsSlash(s) THEN <<s>>
  ELSE <<SubSeq(s, 1, IndexSlash(s) - 1)>> \o SplitSlash(SubSeq(s, IndexSlash(s) + 1, Len(s)))

RECURSIVE JoinSlash(_)
\* strings.Join(parts, "/")
JoinSlash(parts) ==
  IF parts = <<>> THEN <<>>
  ELSE IF Len(parts) = 1 THEN parts[1]
  ELSE parts[1] \o Slash \o JoinSlash(Tail(parts))

RECURSIVE JoinSpace(_)
\* strings.Join(names, " ")
JoinSpace(names) ==
  IF names = <<>> THEN <<>>
  ELSE IF Len(names) = 1 THEN names[1]
  ELSE names[1] \o <<" ">> \o JoinSpace(Tail(names))

RECURSIVE TrimLeftSlash(_)
\* strings.TrimLeft(s, "/")
TrimLeftSlash(s) == IF s # <<>> /\ s[1] = "/" THEN TrimLeftSlash(Tail(s)) ELSE s

RECURSIVE TrimRightSlash(_)
\* strings.TrimRight(s, "/")
TrimRightSlash(s) ==
  IF s # <<>> /\ s[Len(s)] = "/" THEN TrimRightSlash(SubSeq(s, 1, Len(s) - 1)) ELSE s

\* strings.Trim(s, "/")
TrimSlash(s) == TrimRightSlash(TrimLeftSlash(s))

\* filepath.Split: everything up to and including the last "/", and the rest
FilepathSplit(path) ==
  [dir |-> SubSeq(path, 1, LastIndexSlash(path)),
   file |-> SubSeq(path, LastIndexSlash(path) + 1, Len(path))]

RECURSIVE CleanStack(_, _, _)
\* the element stack filepath.Clean builds: "" and "." dropped, ".." pops
CleanStack(comps, stack, rooted) ==
  IF comps = <<>> THEN stack
  ELSE LET c == Head(comps) IN
    IF c = <<>> \/ c = Dot THEN CleanStack(Tail(comps), stack, rooted)
    ELSE IF c = DotDot THEN
      IF stack # <<>> /\ stack[Len(stack)] # DotDot
        THEN CleanStack(Tail(comps), SubSeq(stack, 1, Len(stack) - 1), rooted)
      ELSE IF rooted THEN CleanStack(Tail(comps), stack, rooted)
      ELSE CleanStack(Tail(comps), Append(stack, c), rooted)
    ELSE CleanStack(Tail(comps), Append(stack, c), rooted)

\* filepath.Clean
FilepathClean(path) ==
  LET rooted == HasPrefix(path, Slash)
      out == (IF rooted THEN Slash ELSE <<>>) \o JoinSlash(CleanStack(SplitSlash(path), <<>>, rooted))
  IN IF out = <<>> THEN Dot ELSE out

\* filepath.Dir
FilepathDir(path) == FilepathClean(FilepathSplit(path).dir)

\* filepath.Base
FilepathBase(path) ==
  IF path = <<>> THEN Dot
  ELSE LET p == TrimRightSlash(path) IN
    IF p = <<>> THEN Slash ELSE SubSeq(p, LastIndexSlash(p) + 1, Len(p))

\* make(map[string]*VirtualFile)
EmptyMap == [k \in {} |-> Nil]

\* m[k] = v
MapPut(m, k, v) == [x \in (DOMAIN m) \cup {k} |-> IF x = k THEN v ELSE m[x]]

\* a delete that removes nothing
MapKeep(m, k) == m

\* delete(m, k)
MapDelete(m, k) == [x \in (DOMAIN m) \ {k} |-> m[x]]

\* &VirtualFile{...}: Children is nil (HasMap FALSE) unless make() was called
Node(name, type, content, hasMap, parent) ==
  [Name |-> name, Type |-> type, Content |-> content, Children |-> EmptyMap,
   HasMap |-> hasMap, Parent |-> parent, Size |-> Len(content)]

\* the results that are no return: a panic, and a call that never ends
Dead == {"PANIC", "HANG"}

\* the result of one call
Outcome(h, c, p, e) == [heap |-> h, cur |-> c, prev |-> p, err |-> e]

\* a call that returns e without touching anything
Fail(s, e) == Outcome(s.heap, s.cur, s.prev, e)

\* a call that returns nil leaving heap h
Done(s, h) == Outcome(h, s.cur, s.prev, "nil")

\* a NewDirectory that leaves the Parent link unset
SkyNewOrphan(name, parent) == Node(name, Directory, <<>>, TRUE, Nil)

\* ====================================================== sonoma-sky-alpha
SkyNewDirectory(name, parent) == Node(name, Directory, <<>>, TRUE, parent)

\* a NewFile that drops the content it is given
SkyNewEmptyFile(name, parent, content) == Node(name, RegularFile, <<>>, FALSE, parent)

SkyNewFile(name, parent, content) == Node(name, RegularFile, content, FALSE, parent)

SkyNewFileSystem ==
  [heap |-> << [SkyNewDirectory(Slash, Nil) EXCEPT !.Children = MapPut(EmptyMap, S("home"), 2)],
               [SkyNewDirectory(S("home"), 1) EXCEPT !.Children = MapPut(EmptyMap, S("user"), 3)],
               SkyNewDirectory(S("user"), 2) >>,
   cur |-> 3, prev |-> 1]

RECURSIVE SkyWalkNames(_, _, _)
\* a component loop that looks '.' and the empty component up as names
SkyWalkNames(h, current, comps) ==
  IF comps = <<>> THEN [node |-> current, err |-> "nil"]
  ELSE LET comp == Head(comps) IN
    IF comp = DotDot THEN
      SkyWalkNames(h, IF h[current].Parent # Nil THEN h[current].Parent ELSE current, Tail(comps))
    ELSE IF h[current].Type # Directory THEN [node |-> Nil, err |-> "not a directory: %s"]
    ELSE IF comp \notin DOMAIN h[current].Children
      THEN [node |-> Nil, err |-> "no such file or directory: %s"]
    ELSE SkyWalkNames(h, h[current].Children[comp], Tail(comps))

RECURSIVE SkyWalk(_, _, _)
\* the component loop of ResolvePath
SkyWalk(h, current, comps) ==
  IF comps = <<>> THEN [node |-> current, err |-> "nil"]
  ELSE LET comp == Head(comps) IN
    IF comp = <<>> \/ comp = Dot THEN SkyWalk(h, current, Tail(comps))
    ELSE IF comp = DotDot THEN
      SkyWalk(h, IF h[current].Parent # Nil THEN h[current].Parent ELSE current, Tail(comps))
    ELSE IF h[current].Type # Directory THEN [node |-> Nil, err |-> "not a directory: %s"]
    ELSE IF comp \notin DOMAIN h[current].Children
      THEN [node |-> Nil, err |-> "no such file or directory: %s"]
    ELSE SkyWalk(h, h[current].Children[comp], Tail(comps))

SkyResolveFrom(s, path) ==
  LET components == SplitSlash(path) IN
    IF components[1] = <<>> THEN SkyWalk(s.heap, Root, Tail(components))
    ELSE SkyWalk(s.heap, s.cur, components)

SkyResolvePath(s, path) ==
  IF path = <<>> THEN [node |-> s.cur, err |-> "nil"]
  ELSE IF path = Tilde THEN SkyResolveFrom(s, HomePath)
  ELSE SkyResolveFrom(s, path)

SkyExists(s, path) == SkyResolvePath(s, path).err = "nil"

RECURSIVE SkyPathParts(_, _, _)
\* the loop of GetPath; fuel runs out only when the Parent chain is a cycle
SkyPathParts(h, current, fuel) ==
  IF current = Nil \/ current = Root THEN [parts |-> <<>>, hang |-> FALSE]
  ELSE IF fuel = 0 THEN [parts |-> <<>>, hang |-> TRUE]
  ELSE LET r == SkyPathParts(h, h[current].Parent, fuel - 1) IN
    [parts |-> Append(r.parts, h[current].Name), hang |-> r.hang]

SkyGetPath(h, file) ==
  IF file = Root THEN [path |-> Slash, hang |-> FALSE]
  ELSE LET r == SkyPathParts(h, file, Len(h)) IN
    [path |-> Slash \o JoinSlash(r.parts), hang |-> r.hang]

\* Cd without the bookkeeping of the previous directory
SkyCdKeepPrev(s, path0) ==
  LET path == IF path0 = <<>> THEN Tilde ELSE path0 IN
  IF path = Dash THEN
    IF s.prev = Nil THEN {Fail(s, "no previous directory")}
    ELSE {Outcome(s.heap, s.prev, s.prev, "nil")}
  ELSE LET r == SkyResolvePath(s, path) IN
    IF r.err # "nil" THEN {Fail(s, r.err)}
    ELSE IF s.heap[r.node].Type # Directory THEN {Fail(s, "%s is not a directory")}
    ELSE {Outcome(s.heap, r.node, s.prev, "nil")}

SkyCd(s, path0) ==
  LET path == IF path0 = <<>> THEN Tilde ELSE path0 IN
  IF path = Dash THEN
    IF s.prev = Nil THEN {Fail(s, "no previous directory")}
    ELSE {Outcome(s.heap, s.prev, s.cur, "nil")}
  ELSE LET r == SkyResolvePath(s, path) IN
    IF r.err # "nil" THEN {Fail(s, r.err)}
    ELSE IF s.heap[r.node].Type # Directory THEN {Fail(s, "%s is not a directory")}
    ELSE {Outcome(s.heap, r.node, s.cur, "nil")}

SkyTouch(s, path) ==
  IF path = <<>> THEN {Fail(s, "touch: missing operand")}
  ELSE LET sp == FilepathSplit(path)
           r == SkyResolvePath(s, sp.dir) IN
    IF r.err # "nil" THEN {Fail(s, "touch: %s: %v")}
    ELSE IF s.heap[r.node].Type # Directory THEN {Fail(s, "touch: %s: not a directory")}
    ELSE IF sp.file \in DOMAIN s.heap[r.node].Children THEN
      LET f == s.heap[r.node].Children[sp.file] IN
        {Done(s, [s.heap EXCEPT ![f].Size = Len(s.heap[f].Content)])}
    ELSE {Done(s, [Append(s.heap, SkyNewFile(sp.file, r.node, <<>>))
                     EXCEPT ![r.node].Children = MapPut(@, sp.file, Len(s.heap) + 1)])}

RECURSIVE SkyMkdirLoop(_, _, _, _, _)
\* the component loop of Mkdir; i is the index of the component in turn
SkyMkdirLoop(h, current, components, i, parents) ==
  IF i > Len(components) THEN [heap |-> h, err |-> "nil"]
  ELSE LET comp == components[i]
           isLast == i = Len(components)
           exists == comp \in DOMAIN h[current].Children
           made == [Append(h, SkyNewDirectory(comp, current))
                      EXCEPT ![current].Children = MapPut(@, comp, Len(h) + 1)]
       IN
    IF comp = <<>> \/ comp = Dot THEN SkyMkdirLoop(h, current, components, i + 1, parents)
    ELSE IF comp = DotDot THEN
      SkyMkdirLoop(h, IF h[current].Parent # Nil THEN h[current].Parent ELSE current,
                   components, i + 1, parents)
    ELSE IF ~parents /\ ~isLast THEN
      IF ~exists THEN [heap |-> h, err |-> "no such file or directory"]
      ELSE IF h[h[current].Children[comp]].Type # Directory
        THEN [heap |-> h, err |-> "%s is not a directory"]
      ELSE SkyMkdirLoop(h, h[current].Children[comp], components, i + 1, parents)
    ELSE IF ~exists THEN SkyMkdirLoop(made, Len(h) + 1, components, i + 1, parents)
    ELSE IF h[h[current].Children[comp]].Type # Directory
      THEN [heap |-> h, err |-> "cannot create directory '%s': not a directory"]
    ELSE SkyMkdirLoop(h, h[current].Children[comp], components, i + 1, parents)

SkyMkdir(s, path, parents) ==
  IF path = <<>> THEN {Fail(s, "mkdir: missing operand")}
  ELSE LET gp == SkyGetPath(s.heap, s.cur)
           currentPath == IF HasSuffix(gp.path, Slash) THEN gp.path ELSE gp.path \o Slash
           absPath == FilepathClean(IF HasPrefix(path, Slash) THEN path ELSE currentPath \o path)
       IN
    IF ~HasPrefix(path, Slash) /\ gp.hang THEN {Fail(s, "HANG")}
    ELSE IF absPath = Slash THEN {Fail(s, "cannot create directory at root")}
    ELSE LET r == SkyMkdirLoop(s.heap, Root, SplitSlash(TrimSlash(absPath)), 1, parents) IN
      {Outcome(r.heap, s.cur, s.prev, r.err)}

RECURSIVE SkyDeleteRecursive(_, _, _)
RECURSIVE SkyDeleteLoop(_, _, _, _)
\* deleteRecursive: every result of running it on dir; fuel is the call depth left
SkyDeleteRecursive(h, dir, fuel) ==
  IF fuel = 0 THEN {[heap |-> h, err |-> "PANIC"]}
  ELSE SkyDeleteLoop(h, dir, {}, fuel)

\* the range over dir.Children, visited being the keys already produced, and the
\* final delete of dir itself
SkyDeleteLoop(h, dir, visited, fuel) ==
  LET keys == (DOMAIN h[dir].Children) \ visited IN
  IF keys = {} THEN
    IF h[dir].Parent = Nil THEN {[heap |-> h, err |-> "PANIC"]}
    ELSE {[heap |-> [h EXCEPT ![h[dir].Parent].Children = MapDelete(@, h[dir].Name)], err |-> "nil"]}
  ELSE UNION {
    LET child == h[dir].Children[k]
        sub == IF h[child].Type = Directory THEN SkyDeleteRecursive(h, child, fuel - 1)
               ELSE {[heap |-> h, err |-> "nil"]}
    IN UNION {
         IF r.err # "nil" THEN {r}
         ELSE IF r.heap[dir].Parent = Nil THEN {[heap |-> r.heap, err |-> "PANIC"]}
         ELSE SkyDeleteLoop([r.heap EXCEPT ![r.heap[dir].Parent].Children = MapDelete(@, r.heap[child].Name)],
                            dir, visited \cup {k}, fuel)
         : r \in sub }
    : k \in keys }

SkyRm(s, path, recursive) ==
  IF path = <<>> THEN {Fail(s, "rm: missing operand")}
  ELSE LET r == SkyResolvePath(s, path) IN
    IF r.err # "nil" THEN {Fail(s, "rm: %s: %v")}
    ELSE IF r.node = Root THEN {Fail(s, "rm: cannot remove root directory")}
    ELSE IF s.heap[r.node].Parent = Nil THEN {Fail(s, "rm: cannot remove root")}
    ELSE IF s.heap[r.node].Type = Directory THEN
      IF ~recursive THEN {Fail(s, "rm: %s: is a directory")}
      ELSE {Outcome(d.heap, s.cur, s.prev, d.err) : d \in SkyDeleteRecursive(s.heap, r.node, Len(s.heap) + 1)}
    ELSE {Done(s, [s.heap EXCEPT ![s.heap[r.node].Parent].Children = MapDelete(@, s.heap[r.node].Name)])}

\* rm -r in the place of rmdir: removes a directory whatever it holds
SkyRmRecursive(s, path) == SkyRm(s, path, TRUE)

SkyRmdir(s, path) ==
  IF path = <<>> THEN {Fail(s, "rmdir: missing operand")}
  ELSE LET r == SkyResolvePath(s, path) IN
    IF r.err # "nil" THEN {Fail(s, "rmdir: %s: %v")}
    ELSE IF s.heap[r.node].Type # Directory THEN {Fail(s, "rmdir: %s: not a directory")}
    ELSE IF DOMAIN s.heap[r.node].Children # {} THEN {Fail(s, "rmdir: %s: directory not empty")}
    ELSE IF s.heap[r.node].Parent = Nil THEN {Fail(s, "rmdir: cannot remove root")}
    ELSE {Done(s, [s.heap EXCEPT ![s.heap[r.node].Parent].Children = MapDelete(@, s.heap[r.node].Name)])}

\* the destination parent and name Cp and Mv compute from dest
SkyDest(s, srcFile, dest) ==
  IF SkyExists(s, dest) THEN
    LET destFile == SkyResolvePath(s, dest).node IN
      IF s.heap[destFile].Type = Directory
        THEN [parent |-> destFile, name |-> s.heap[srcFile].Name, err |-> "nil", over |-> FALSE]
      ELSE [parent |-> s.heap[destFile].Parent, name |-> s.heap[destFile].Name, err |-> "nil", over |-> TRUE]
  ELSE LET r == SkyResolvePath(s, FilepathDir(dest)) IN
    IF r.err # "nil" THEN [parent |-> Nil, name |-> <<>>, err |-> "%s: %s: %v", over |-> FALSE]
    ELSE IF s.heap[r.node].Type # Directory
      THEN [parent |-> Nil, name |-> <<>>, err |-> "%s: %s: not a directory", over |-> FALSE]
    ELSE [parent |-> r.node, name |-> FilepathBase(dest), err |-> "nil", over |-> FALSE]

RECURSIVE SkyCopyRecursive(_, _, _, _, _)
RECURSIVE SkyCopyLoop(_, _, _, _, _)
\* copyRecursive: every result.  base is the number of nodes that existed when
\* Cp was called: a copy that comes to copy a directory it has created itself
\* (the destination lies inside the source) finds a newer one inside it each
\* time and recurses until the stack is exhausted.
SkyCopyRecursive(h, srcDir, destParent, destName, base) ==
  IF srcDir > base THEN {[heap |-> h, err |-> "PANIC"]}
  ELSE SkyCopyLoop([Append(h, SkyNewDirectory(destName, destParent))
                      EXCEPT ![destParent].Children = MapPut(@, destName, Len(h) + 1)],
                   srcDir, Len(h) + 1, {}, base)

\* the range over srcDir.Children, visited being the keys already produced
SkyCopyLoop(h, srcDir, destDir, visited, base) ==
  LET keys == (DOMAIN h[srcDir].Children) \ visited IN
  IF keys = {} THEN {[heap |-> h, err |-> "nil"]}
  ELSE UNION {
    LET child == h[srcDir].Children[name] IN
      IF h[child].Type = Directory THEN
        UNION { IF r.err # "nil" THEN {r}
                ELSE SkyCopyLoop(r.heap, srcDir, destDir, visited \cup {name}, base)
                : r \in SkyCopyRecursive(h, child, destDir, name, base) }
      ELSE SkyCopyLoop([Append(h, SkyNewFile(name, destDir, h[child].Content))
                          EXCEPT ![destDir].Children = MapPut(@, name, Len(h) + 1)],
                       srcDir, destDir, visited \cup {name}, base)
    : name \in keys }

\* a Cp that stores the source node itself under the destination name
\* instead of copying it (a link): what copy independence rules out
SkyCpLinked(s, source, dest, recursive) ==
  LET r == SkyResolvePath(s, source) IN
    IF r.err # "nil" THEN {Fail(s, "cp: %s: %v")}
    ELSE LET d == SkyDest(s, r.node, dest) IN
      IF d.err # "nil" THEN {Fail(s, d.err)}
      ELSE IF s.heap[r.node].Type = Directory /\ ~recursive THEN {Fail(s, "cp: omitting directory %s")}
      ELSE {Done(s, [s.heap EXCEPT ![d.parent].Children = MapPut(@, d.name, r.node)])}

SkyCp(s, source, dest, recursive) ==
  IF source = <<>> \/ dest = <<>> THEN {Fail(s, "cp: missing file operand")}
  ELSE LET r == SkyResolvePath(s, source) IN
    IF r.err # "nil" THEN {Fail(s, "cp: %s: %v")}
    ELSE LET d == SkyDest(s, r.node, dest) IN
      IF d.err # "nil" THEN {Fail(s, d.err)}
      ELSE IF s.heap[r.node].Type = RegularFile THEN
        {Done(s, [Append(s.heap, SkyNewFile(d.name, d.parent, s.heap[r.node].Content))
                    EXCEPT ![d.parent].Children = MapPut(@, d.name, Len(s.heap) + 1)])}
      ELSE IF ~recursive THEN {Fail(s, "cp: omitting directory %s")}
      ELSE {Outcome(c.heap, s.cur, s.prev, c.err)
              : c \in SkyCopyRecursive(s.heap, r.node, d.parent, d.name, Len(s.heap))}

RECURSIVE SkyUpdateParentsRecursive(_, _, _)
RECURSIVE SkyUpdateParentsLoop(_, _, _, _)
\* updateParentsRecursive: every result.  It never changes a Children map, so
\* entering a directory whose call is still on the stack repeats without end.
SkyUpdateParentsRecursive(h, dir, stack) ==
  IF dir \in stack THEN {[heap |-> h, err |-> "PANIC"]}
  ELSE SkyUpdateParentsLoop(h, dir, {}, stack \cup {dir})

\* the range over dir.Children, visited being the keys already produced
SkyUpdateParentsLoop(h, dir, visited, stack) ==
  LET keys == (DOMAIN h[dir].Children) \ visited IN
  IF keys = {} THEN {[heap |-> h, err |-> "nil"]}
  ELSE UNION {
    LET child == h[dir].Children[k]
        h1 == [h EXCEPT ![child].Parent = dir]
        sub == IF h1[child].Type = Directory THEN SkyUpdateParentsRecursive(h1, child, stack)
               ELSE {[heap |-> h1, err |-> "nil"]}
    IN UNION { IF r.err # "nil" THEN {r}
               ELSE SkyUpdateParentsLoop(r.heap, dir, visited \cup {k}, stack)
               : r \in sub }
    : k \in keys }

SkyMv(s, source, dest) ==
  IF source = <<>> \/ dest = <<>> THEN {Fail(s, "mv: missing file operand")}
  ELSE LET r == SkyResolvePath(s, source) IN
    IF r.err # "nil" THEN {Fail(s, "mv: %s: %v")}
    ELSE LET d == SkyDest(s, r.node, dest)
             srcFile == r.node
             \* an existing destination file is removed first
             h0 == IF d.err = "nil" /\ d.over
                     THEN [s.heap EXCEPT ![d.parent].Children = MapDelete(@, d.name)]
                   ELSE s.heap
         IN
      IF d.err # "nil" THEN {Fail(s, d.err)}
      ELSE IF h0[srcFile].Parent = Nil THEN {Outcome(h0, s.cur, s.prev, "mv: cannot move root")}
      ELSE LET h1 == [h0 EXCEPT ![h0[srcFile].Parent].Children = MapDelete(@, h0[srcFile].Name)]
               h2 == [h1 EXCEPT ![srcFile].Parent = d.parent, ![srcFile].Name = d.name]
               h3 == [h2 EXCEPT ![d.parent].Children = MapPut(@, d.name, srcFile)]
           IN
        IF h3[srcFile].Type = Directory THEN
          {Outcome(u.heap, s.cur, s.prev, u.err)
             : u \in SkyUpdateParentsRecursive(h3, srcFile, {})}
        ELSE {Done(s, h3)}

SkyEchoWrite(s, text, path, appendMode) ==
  IF path = <<>> THEN {Fail(s, "echo: missing filename")}
  ELSE LET sp == FilepathSplit(path)
           r == SkyResolvePath(s, sp.dir)
           dir == r.node
           created == [Append(s.heap, SkyNewFile(sp.file, dir, text \o Newline))
                         EXCEPT ![dir].Children = MapPut(@, sp.file, Len(s.heap) + 1)]
       IN
    IF r.err # "nil" THEN {Fail(s, "echo: %s: %v")}
    ELSE IF s.heap[dir].Type # Directory THEN {Fail(s, "echo: %s: not a directory")}
    ELSE IF appendMode /\ sp.file \in DOMAIN s.heap[dir].Children THEN
      LET file == s.heap[dir].Children[sp.file]
          content == s.heap[file].Content \o text \o Newline IN
        IF s.heap[file].Type = RegularFile
          THEN {Done(s, [s.heap EXCEPT ![file].Content = content, ![file].Size = Len(content)])}
        ELSE {Fail(s, "echo: %s: not a file")}
    ELSE {Done(s, created)}

SkyCat(s, path) ==
  IF path = <<>> THEN [out |-> <<>>, err |-> "cat: missing operand"]
  ELSE LET r == SkyResolvePath(s, path) IN
    IF r.err # "nil" THEN [out |-> <<>>, err |-> "cat: %s: %v"]
    ELSE IF s.heap[r.node].Type # RegularFile THEN [out |-> <<>>, err |-> "cat: %s: not a file"]
    ELSE [out |-> s.heap[r.node].Content, err |-> "nil"]

\* the orders in which a range loop over a Go map can deliver the keys
RangeOrders(keys) ==
  { o \in [1..Cardinality(keys) -> keys] : \A i, j \in DOMAIN o : i # j => o[i] # o[j] }

\* the names Ls collects: names starting with "." are skipped unless all
SkyLsNames(children, all) ==
  { name \in DOMAIN children : all \/ ~HasPrefix(name, Dot) \/ name = Dot \/ name = DotDot }

\* Ls(path, false, all): the short format, one outcome per order of the range loop
SkyLs(s, path0, all) ==
  LET path == IF path0 = <<>> THEN Dot ELSE path0
      r == SkyResolvePath(s, path) IN
    IF r.err # "nil" THEN {[out |-> <<>>, err |-> "ls: %v"]}
    ELSE IF s.heap[r.node].Type # Directory THEN {[out |-> <<>>, err |-> "ls: %s: not a directory"]}
    ELSE { [out |-> JoinSpace(names), err |-> "nil"] :
             names \in RangeOrders(SkyLsNames(s.heap[r.node].Children, all)) }

\* ===================================================== sonoma-dusk-alpha
\* &VirtualFile{Type: Directory, Children: make(...)}
DuskNewDir(name, parent) == Node(name, Directory, <<>>, TRUE, parent)

\* &VirtualFile{Type: RegularFile, Content: ...}
DuskNewFile(name, parent, content) == Node(name, RegularFile, content, FALSE, parent)

\* NewTerminal: NewFileSystem plus the /home/user scaffold
DuskNewTerminal ==
  [heap |-> << [DuskNewDir(Slash, Nil) EXCEPT !.Children = MapPut(EmptyMap, S("home"), 2)],
               [DuskNewDir(S("home"), 1) EXCEPT !.Children = MapPut(EmptyMap, S("user"), 3)],
               DuskNewDir(S("user"), 2) >>,
   cur |-> 3, prev |-> 1]

DuskIsDir(h, f) == h[f].Type = Directory

\* a state with the heap replaced
WithHeap(s, h) == [heap |-> h, cur |-> s.cur, prev |-> s.prev]

RECURSIVE DuskWalk(_, _, _)
\* the part loop of resolvePath
DuskWalk(h, current, parts) ==
  IF parts = <<>> THEN [node |-> current, err |-> "nil"]
  ELSE LET part == Head(parts) IN
    IF part = <<>> \/ part = Dot THEN DuskWalk(h, current, Tail(parts))
    ELSE IF part = DotDot THEN
      DuskWalk(h, IF h[current].Parent # Nil THEN h[current].Parent ELSE current, Tail(parts))
    ELSE IF part \in DOMAIN h[current].Children THEN DuskWalk(h, h[current].Children[part], Tail(parts))
    ELSE [node |-> Nil, err |-> "no such file or directory: %s"]

DuskResolvePath(s, path0) ==
  IF path0 = <<>> THEN [node |-> Nil, err |-> "empty path"]
  ELSE LET path == IF path0 = Tilde THEN HomePath ELSE path0 IN
    IF path = Dash THEN [node |-> s.prev, err |-> "nil"]
    ELSE IF HasPrefix(path, Slash) THEN DuskWalk(s.heap, Root, SplitSlash(TrimLeftSlash(path)))
    ELSE DuskWalk(s.heap, s.cur, SplitSlash(path))

RECURSIVE DuskPathLoop(_, _, _)
\* the loop of CurrentPath: it ends at Root, dereferences nil past a node
\* without parent, and never ends on a cycle of Parent links
DuskPathLoop(h, current, fuel) ==
  IF current = Root THEN [path |-> <<>>, bad |-> "nil"]
  ELSE IF current = Nil THEN [path |-> <<>>, bad |-> "PANIC"]
  ELSE IF fuel = 0 THEN [path |-> <<>>, bad |-> "HANG"]
  ELSE LET r == DuskPathLoop(h, h[current].Parent, fuel - 1) IN
    [path |-> r.path \o Slash \o h[current].Name, bad |-> r.bad]

DuskCurrentPath(s) ==
  IF s.cur = Root THEN [path |-> Slash, bad |-> "nil"]
  ELSE DuskPathLoop(s.heap, s.cur, Len(s.heap))

DuskChangeDir(s, path) ==
  LET r == DuskResolvePath(s, path) IN
    IF r.err # "nil" THEN {Fail(s, r.err)}
    ELSE IF ~DuskIsDir(s.heap, r.node) THEN {Fail(s, "%s: not a directory")}
    ELSE {Outcome(s.heap, r.node, s.cur, "nil")}

DuskTouch(s, path) ==
  LET r == DuskResolvePath(s, path) IN
    IF r.err # "nil" THEN
      LET pr == DuskResolvePath(s, FilepathDir(path))
          filename == FilepathBase(path) IN
        IF pr.err # "nil" THEN {Fail(s, pr.err)}
        ELSE IF ~DuskIsDir(s.heap, pr.node) THEN {Fail(s, "cannot create file in non-directory")}
        ELSE IF filename \in DOMAIN s.heap[pr.node].Children THEN {Fail(s, "file already exists")}
        ELSE {Done(s, [Append(s.heap, DuskNewFile(filename, pr.node, <<>>))
                         EXCEPT ![pr.node].Children = MapPut(@, filename, Len(s.heap) + 1)])}
    ELSE IF DuskIsDir(s.heap, r.node) THEN {Fail(s, "%s is a directory")}
    ELSE {Done(s, s.heap)}

RECURSIVE DuskMkDirLoop(_, _, _, _, _)
\* the part loop of MkDir; i is the index of the part in turn
DuskMkDirLoop(h, current, parts, i, parents) ==
  IF i > Len(parts) THEN [heap |-> h, err |-> "nil"]
  ELSE LET part == parts[i] IN
    IF part = <<>> THEN DuskMkDirLoop(h, current, parts, i + 1, parents)
    ELSE IF part \notin DOMAIN h[current].Children THEN
      IF i = Len(parts) \/ parents THEN
        DuskMkDirLoop([Append(h, DuskNewDir(part, current))
                         EXCEPT ![current].Children = MapPut(@, part, Len(h) + 1)],
                      Len(h) + 1, parts, i + 1, parents)
      ELSE [heap |-> h, err |-> "cannot create directory %s: No such file or directory"]
    ELSE IF ~DuskIsDir(h, h[current].Children[part]) THEN [heap |-> h, err |-> "%s: Not a directory"]
    ELSE DuskMkDirLoop(h, h[current].Children[part], parts, i + 1, parents)

DuskMkDir(s, path0, parents) ==
  IF path0 = <<>> THEN {Fail(s, "mkdir: missing directory name")}
  ELSE LET path1 == IF path0 = Tilde THEN HomePath
                    ELSE IF HasPrefix(path0, <<"~", "/">>) THEN HomePath \o Tail(path0)
                    ELSE path0
           cp == DuskCurrentPath(s)
           path == IF ~HasPrefix(path1, Slash) /\ cp.path # Slash THEN cp.path \o Slash \o path1
                   ELSE path1
       IN
    IF ~HasPrefix(path1, Slash) /\ cp.bad # "nil" THEN {Fail(s, cp.bad)}
    ELSE LET r == DuskMkDirLoop(s.heap, Root, SplitSlash(TrimSlash(path)), 1, parents) IN
      {Outcome(r.heap, s.cur, s.prev, r.err)}

DuskCat(s, path) ==
  LET r == DuskResolvePath(s, path) IN
    IF r.err # "nil" THEN [out |-> <<>>, err |-> r.err]
    ELSE IF DuskIsDir(s.heap, r.node) THEN [out |-> <<>>, err |-> "%s is a directory"]
    ELSE [out |-> s.heap[r.node].Content, err |-> "nil"]

\* the write at the end of Echo
DuskWrite(h, file, text, appendMode) ==
  LET content == IF appendMode THEN h[file].Content \o text \o Newline ELSE text \o Newline IN
    [h EXCEPT ![file].Content = content, ![file].Size = Len(content)]

DuskEcho(s, text, path, appendMode) ==
  LET r == DuskResolvePath(s, path) IN
    IF r.err # "nil" THEN
      LET pr == DuskResolvePath(s, FilepathDir(path))
          filename == FilepathBase(path) IN
        IF pr.err # "nil" THEN {Fail(s, pr.err)}
        ELSE IF ~DuskIsDir(s.heap, pr.node) THEN {Fail(s, "cannot write to non-directory")}
        ELSE IF filename \in DOMAIN s.heap[pr.node].Children /\ ~appendMode
          THEN {Fail(s, "file already exists")}
        ELSE {Done(s, DuskWrite([Append(s.heap, DuskNewFile(filename, pr.node, <<>>))
                                   EXCEPT ![pr.node].Children = MapPut(@, filename, Len(s.heap) + 1)],
                                Len(s.heap) + 1, text, appendMode))}
    ELSE {Done(s, DuskWrite(s.heap, r.node, text, appendMode))}

RECURSIVE DuskRm(_, _, _, _)
RECURSIVE DuskRmLoop(_, _, _, _, _, _)
\* Rm: every result.  stack holds, for every call of Rm in progress, its target
\* and the tree it began with; a nested call that begins with the target and
\* tree of a call in progress can repeat that call's steps without end, which
\* exhausts the goroutine stack.
DuskRm(s, path, recursive, stack) ==
  LET r == DuskResolvePath(s, path)
      target == r.node IN
    IF r.err # "nil" THEN {Fail(s, r.err)}
    ELSE IF s.heap[target].Parent = Nil THEN {Fail(s, "cannot remove root directory")}
    ELSE IF DuskIsDir(s.heap, target) THEN
      IF ~recursive /\ DOMAIN s.heap[target].Children # {}
        THEN {Fail(s, "%s: is a directory and not empty")}
      ELSE IF <<target, s.heap>> \in stack THEN {Fail(s, "PANIC")}
      ELSE DuskRmLoop(s, target, s.heap[target].Parent, s.heap[target].Name, {},
                      stack \cup {<<target, s.heap>>})
    ELSE {Done(s, [s.heap EXCEPT ![s.heap[target].Parent].Children = MapDelete(@, s.heap[target].Name)])}

\* the range over target.Children, visited being the keys already produced, and
\* the final delete from the parent
DuskRmLoop(s, target, parent, filename, visited, stack) ==
  LET keys == (DOMAIN s.heap[target].Children) \ visited IN
  IF keys = {} THEN {Done(s, [s.heap EXCEPT ![parent].Children = MapDelete(@, filename)])}
  ELSE UNION {
    LET child == s.heap[target].Children[k] IN
      IF DuskIsDir(s.heap, child) THEN
        UNION { IF r.err = "PANIC" THEN {Fail(s, "PANIC")}
                ELSE DuskRmLoop(WithHeap(s, r.heap), target, parent, filename, visited \cup {k}, stack)
                : r \in DuskRm(s, s.heap[child].Name, TRUE, stack) }
      ELSE DuskRmLoop(WithHeap(s, [s.heap EXCEPT ![target].Children = MapDelete(@, s.heap[child].Name)]),
                      target, parent, filename, visited \cup {k}, stack)
    : k \in keys }

DuskRmDir(s, path) == DuskRm(s, path, FALSE, {})

RECURSIVE DuskCopy(_, _, _, _, _)
RECURSIVE DuskCopyLoop(_, _, _, _, _, _)
\* Copy: every result; fuel is the call depth left
DuskCopy(s, src, dest, recursive, fuel) ==
  IF fuel = 0 THEN {Fail(s, "PANIC")}
  ELSE LET r == DuskResolvePath(s, src)
           pr == DuskResolvePath(s, FilepathDir(dest))
           destName == FilepathBase(dest)
           new == Len(s.heap) + 1 IN
    IF r.err # "nil" THEN {Fail(s, r.err)}
    ELSE IF pr.err # "nil" THEN {Fail(s, pr.err)}
    ELSE IF ~DuskIsDir(s.heap, pr.node) THEN {Fail(s, "cannot copy to non-directory")}
    ELSE IF destName \in DOMAIN s.heap[pr.node].Children THEN {Fail(s, "file already exists")}
    ELSE IF DuskIsDir(s.heap, r.node) THEN
      IF ~recursive THEN {Fail(s, "%s: is a directory")}
      ELSE DuskCopyLoop(WithHeap(s, [Append(s.heap, DuskNewDir(destName, pr.node))
                                       EXCEPT ![pr.node].Children = MapPut(@, destName, new)]),
                        r.node, new, {}, DOMAIN s.heap[r.node].Children \cup
                                            (IF pr.node = r.node THEN {destName} ELSE {}), fuel)
    ELSE {Done(s, [Append(s.heap, DuskNewFile(destName, pr.node, s.heap[r.node].Content))
                     EXCEPT ![pr.node].Children = MapPut(@, destName, new)])}

\* the range over srcFile.Children: visited are the keys already produced, first
\* the keys the map had when the range began (an entry added later may be
\* produced or skipped)
DuskCopyLoop(s, srcFile, newDir, visited, first, fuel) ==
  LET keys == (DOMAIN s.heap[srcFile].Children) \ visited
      stop == IF (keys \cap first) = {} THEN {Done(s, s.heap)} ELSE {}
  IN stop \cup UNION {
    LET child == s.heap[srcFile].Children[name]
        childPath == s.heap[srcFile].Name \o Slash \o name
        destChildPath == s.heap[newDir].Name \o Slash \o name IN
      IF DuskIsDir(s.heap, child) THEN
        UNION { IF r.err = "PANIC" THEN {Fail(s, "PANIC")}
                ELSE DuskCopyLoop(WithHeap(s, r.heap), srcFile, newDir, visited \cup {name}, first, fuel)
                : r \in DuskCopy(s, childPath, destChildPath, TRUE, fuel - 1) }
      ELSE DuskCopyLoop(WithHeap(s, [Append(s.heap, DuskNewFile(name, newDir, s.heap[child].Content))
                                       EXCEPT ![newDir].Children = MapPut(@, name, Len(s.heap) + 1)]),
                        srcFile, newDir, visited \cup {name}, first, fuel)
    : name \in keys }

DuskMove(s, src, dest) ==
  LET r == DuskResolvePath(s, src)
      pr == DuskResolvePath(s, FilepathDir(dest))
      destName == FilepathBase(dest)
      srcFile == r.node IN
    IF r.err # "nil" THEN {Fail(s, r.err)}
    ELSE IF pr.err # "nil" THEN {Fail(s, pr.err)}
    ELSE IF ~DuskIsDir(s.heap, pr.node) THEN {Fail(s, "cannot move to non-directory")}
    ELSE IF destName \in DOMAIN s.heap[pr.node].Children THEN {Fail(s, "file already exists")}
    ELSE LET h1 == IF s.heap[srcFile].Parent # Nil
                     THEN [s.heap EXCEPT ![s.heap[srcFile].Parent].Children = MapDelete(@, s.heap[srcFile].Name)]
                   ELSE s.heap
             h2 == [h1 EXCEPT ![srcFile].Parent = pr.node, ![srcFile].Name = destName]
         IN {Done(s, [h2 EXCEPT ![pr.node].Children = MapPut(@, destName, srcFile)])}

\* ====================================================== grok-code-fast-1
\* &VirtualFile{Type: Directory, Children: make(...)}
GrokNewDir(name, parent) == Node(name, Directory, <<>>, TRUE, parent)

\* NewFileSystem: the root is its own parent and there is no previous directory
GrokNewFileSystem ==
  [heap |-> << [GrokNewDir(Slash, Root) EXCEPT !.Children = MapPut(EmptyMap, S("home"), 2)],
               [GrokNewDir(S("home"), 1) EXCEPT !.Children = MapPut(EmptyMap, S("user"), 3)],
               GrokNewDir(S("user"), 2) >>,
   cur |-> 3, prev |-> Nil]

\* Root.Children["home"].Children["user"]: a missing "home" gives a nil node
\* whose field is then read (PANIC); a missing "user" gives nil
GrokHomeUser(h) ==
  IF S("home") \notin DOMAIN h[Root].Children THEN [node |-> Nil, err |-> "PANIC"]
  ELSE LET home == h[Root].Children[S("home")] IN
    IF S("user") \in DOMAIN h[home].Children
      THEN [node |-> h[home].Children[S("user")], err |-> "nil"]
    ELSE [node |-> Nil, err |-> "nil"]

RECURSIVE GrokWalk(_, _, _)
\* the part loop of ResolvePath
GrokWalk(h, current, parts) ==
  IF parts = <<>> THEN [node |-> current, err |-> "nil"]
  ELSE LET part == Head(parts) IN
    IF part = <<>> \/ part = Dot THEN GrokWalk(h, current, Tail(parts))
    ELSE IF part = DotDot THEN
      GrokWalk(h, IF h[current].Parent # Nil /\ h[current].Parent # current
                    THEN h[current].Parent ELSE current, Tail(parts))
    ELSE IF h[current].Type # Directory THEN [node |-> Nil, err |-> "not a directory"]
    ELSE IF part \notin DOMAIN h[current].Children THEN [node |-> Nil, err |-> "no such file or directory"]
    ELSE GrokWalk(h, h[current].Children[part], Tail(parts))

GrokResolvePath(s, path) ==
  IF path = <<>> THEN [node |-> s.cur, err |-> "nil"]
  ELSE IF HasPrefix(path, Slash) THEN
    IF path = Slash THEN [node |-> Root, err |-> "nil"]
    ELSE GrokWalk(s.heap, Root, SplitSlash(TrimSlash(path)))
  ELSE IF path = Tilde THEN GrokHomeUser(s.heap)
  ELSE GrokWalk(s.heap, s.cur, SplitSlash(path))

\* getParentPath
GrokParentPath(path) ==
  IF path = Slash THEN Slash
  ELSE LET parts == SplitSlash(TrimSlash(path)) IN
    IF Len(parts) <= 1 THEN Dot ELSE JoinSlash(SubSeq(parts, 1, Len(parts) - 1))

\* getBaseName
GrokBaseName(path) ==
  LET parts == SplitSlash(TrimSlash(path)) IN parts[Len(parts)]

\* parent.Children[name] = n, on a heap g that already holds node n: a write
\* into a nil map panics
GrokStore(s, g, parent, name, n) ==
  IF ~g[parent].HasMap THEN Fail(s, "PANIC")
  ELSE Done(s, [g EXCEPT ![parent].Children = MapPut(@, name, n)])

\* cmdCd; noArgs is the call without arguments
GrokCd(s, path0, noArgs) ==
  LET path == IF noArgs THEN Tilde ELSE path0
      r == IF path = Dash THEN [node |-> s.prev, err |-> "nil"]
           ELSE IF path = Tilde THEN GrokHomeUser(s.heap)
           ELSE GrokResolvePath(s, path)
  IN
    IF path = Dash /\ s.prev = Nil THEN {Fail(s, "cd: no previous directory")}
    ELSE IF r.err # "nil" THEN {Fail(s, r.err)}
    ELSE IF r.node = Nil THEN {Fail(s, "PANIC")}
    ELSE IF s.heap[r.node].Type # Directory THEN {Fail(s, "cd: not a directory: %s")}
    ELSE {Outcome(s.heap, r.node, s.cur, "nil")}

\* cmdMkdir with one path, and createDirectory
GrokMkdir(s, path, createParents) ==
  LET pr == GrokResolvePath(s, GrokParentPath(path))
      dirName == GrokBaseName(path) IN
    IF GrokResolvePath(s, path).err = "PANIC" THEN {Fail(s, "PANIC")}
    ELSE IF GrokResolvePath(s, path).err = "nil"
      THEN {Fail(s, "mkdir: cannot create directory '%s': File exists")}
    ELSE IF createParents THEN {Fail(s, "mkdir: -p flag not implemented yet")}
    ELSE IF pr.err = "PANIC" THEN {Fail(s, "PANIC")}
    ELSE IF pr.err # "nil" THEN {Fail(s, "mkdir: cannot create directory '%s': No such file or directory")}
    ELSE IF pr.node = Nil THEN {Fail(s, "PANIC")}
    ELSE IF s.heap[pr.node].Type # Directory
      THEN {Fail(s, "mkdir: cannot create directory '%s': Not a directory")}
    ELSE {GrokStore(s, Append(s.heap, GrokNewDir(dirName, pr.node)), pr.node, dirName, Len(s.heap) + 1)}

\* cmdRmdir with one path
GrokRmdir(s, path) ==
  LET r == GrokResolvePath(s, path) IN
    IF r.err # "nil" THEN {Fail(s, r.err)}
    ELSE IF r.node = Nil THEN {Fail(s, "PANIC")}
    ELSE IF s.heap[r.node].Type # Directory
      THEN {Fail(s, "rmdir: failed to remove '%s': Not a directory")}
    ELSE IF DOMAIN s.heap[r.node].Children # {}
      THEN {Fail(s, "rmdir: failed to remove '%s': Directory not empty")}
    ELSE {Done(s, [s.heap EXCEPT ![s.heap[r.node].Parent].Children = MapDelete(@, s.heap[r.node].Name)])}

\* cmdTouch with one path
GrokTouch(s, path) ==
  LET r == GrokResolvePath(s, path)
      pr == GrokResolvePath(s, GrokParentPath(path))
      fileName == GrokBaseName(path) IN
    IF r.err = "PANIC" THEN {Fail(s, "PANIC")}
    ELSE IF r.err = "nil" THEN (IF r.node = Nil THEN {Fail(s, "PANIC")} ELSE {Done(s, s.heap)})
    ELSE IF pr.err # "nil" THEN {Fail(s, pr.err)}
    ELSE IF pr.node = Nil THEN {Fail(s, "PANIC")}
    ELSE IF s.heap[pr.node].Type # Directory THEN {Fail(s, "touch: cannot touch '%s': Not a directory")}
    ELSE {GrokStore(s, Append(s.heap, Node(fileName, RegularFile, <<>>, FALSE, pr.node)),
                    pr.node, fileName, Len(s.heap) + 1)}

\* cmdRm with one path
GrokRm(s, path, recursive) ==
  LET r == GrokResolvePath(s, path) IN
    IF r.err # "nil" THEN {Fail(s, r.err)}
    ELSE IF r.node = Nil THEN {Fail(s, "PANIC")}
    ELSE IF s.heap[r.node].Type = Directory /\ ~recursive
      THEN {Fail(s, "rm: cannot remove '%s': Is a directory")}
    ELSE {Done(s, [s.heap EXCEPT ![s.heap[r.node].Parent].Children = MapDelete(@, s.heap[r.node].Name)])}

\* cmdCp: the copy is one node of the source's type and content, with no
\* Children map
GrokCp(s, source, dest, recursive) ==
  LET r == GrokResolvePath(s, source)
      pr == GrokResolvePath(s, GrokParentPath(dest))
      destName == GrokBaseName(dest) IN
    IF r.err # "nil" THEN {Fail(s, r.err)}
    ELSE IF r.node = Nil THEN {Fail(s, "PANIC")}
    ELSE IF s.heap[r.node].Type = Directory /\ ~recursive
      THEN {Fail(s, "cp: -r not specified; omitting directory '%s'")}
    ELSE IF pr.err # "nil" THEN {Fail(s, pr.err)}
    ELSE IF pr.node = Nil THEN {Fail(s, "PANIC")}
    ELSE {GrokStore(s, Append(s.heap, [Node(destName, s.heap[r.node].Type, s.heap[r.node].Content,
                                            FALSE, pr.node) EXCEPT !.Size = s.heap[r.node].Size]),
                    pr.node, destName, Len(s.heap) + 1)}

\* cmdMv: the source leaves its parent before the destination is resolved
GrokMv(s, source, dest) ==
  LET r == GrokResolvePath(s, source) IN
    IF r.err # "nil" THEN {Fail(s, r.err)}
    ELSE IF r.node = Nil THEN {Fail(s, "PANIC")}
    ELSE LET sourceFile == r.node
             h1 == [s.heap EXCEPT ![s.heap[sourceFile].Parent].Children = MapDelete(@, s.heap[sourceFile].Name)]
             pr == GrokResolvePath(WithHeap(s, h1), GrokParentPath(dest))
             destName == GrokBaseName(dest) IN
      IF pr.err = "PANIC" THEN {Fail(s, "PANIC")}
      ELSE IF pr.err # "nil" THEN {Outcome(h1, s.cur, s.prev, pr.err)}
      ELSE IF pr.node = Nil THEN {Fail(s, "PANIC")}
      ELSE {GrokStore(s, [h1 EXCEPT ![sourceFile].Name = destName, ![sourceFile].Parent = pr.node],
                      pr.node, destName, sourceFile)}

\* =============================================================== glm-4.5
\* NewVirtualFile: every node gets a Children map and no parent
GlmNewVirtualFile(name, fileType) == Node(name, fileType, <<>>, TRUE, Nil)

\* an AddChild that stores the child whatever the directory already holds
GlmAddChildOver(h, vf, child) ==
  IF h[vf].Type # Directory THEN [heap |-> h, err |-> "cannot add child to non-directory"]
  ELSE [heap |-> [h EXCEPT ![child].Parent = vf, ![vf].Children = MapPut(@, h[child].Name, child)],
        err |-> "nil"]

\* vf.AddChild(child) on heap h
GlmAddChild(h, vf, child) ==
  IF h[vf].Type # Directory THEN [heap |-> h, err |-> "cannot add child to non-directory"]
  ELSE IF h[child].Name \in DOMAIN h[vf].Children
    THEN [heap |-> h, err |-> "file or directory '%s' already exists"]
  ELSE [heap |-> [h EXCEPT ![child].Parent = vf, ![vf].Children = MapPut(@, h[child].Name, child)],
        err |-> "nil"]

\* vf.RemoveChild(name) on heap h
GlmRemoveChild(h, vf, name) ==
  IF h[vf].Type # Directory THEN [heap |-> h, err |-> "cannot remove child from non-directory"]
  ELSE IF name \notin DOMAIN h[vf].Children THEN [heap |-> h, err |-> "file or directory '%s' not found"]
  ELSE [heap |-> [h EXCEPT ![vf].Children = MapDelete(@, name)], err |-> "nil"]

\* NewVirtualFile(name, fileType) followed by dir.AddChild of it
GlmCreate(h, dir, name, fileType) ==
  GlmAddChild(Append(h, GlmNewVirtualFile(name, fileType)), dir, Len(h) + 1)

RECURSIVE GlmPathLoop(_, _, _)
\* the loop of GetPath over the ancestors: it ends at nil or at a node named
\* "", and never ends on a cycle of Parent links
GlmPathLoop(h, parent, fuel) ==
  IF parent = Nil \/ h[parent].Name = <<>> THEN [path |-> <<>>, bad |-> "nil"]
  ELSE IF fuel = 0 THEN [path |-> <<>>, bad |-> "HANG"]
  ELSE LET r == GlmPathLoop(h, h[parent].Parent, fuel - 1) IN
    [path |-> r.path \o h[parent].Name \o Slash, bad |-> r.bad]

\* vf.GetPath()
GlmGetPath(h, vf) ==
  IF h[vf].Parent = Nil THEN [path |-> Slash, bad |-> "nil"]
  ELSE LET r == GlmPathLoop(h, h[vf].Parent, Len(h)) IN
    [path |-> Slash \o r.path \o h[vf].Name, bad |-> r.bad]

GlmNewFileSystem ==
  [heap |-> << [GlmNewVirtualFile(<<>>, Directory) EXCEPT !.Children = MapPut(EmptyMap, S("home"), 2)],
               [GlmNewVirtualFile(S("home"), Directory)
                  EXCEPT !.Parent = 1, !.Children = MapPut(EmptyMap, S("user"), 3)],
               [GlmNewVirtualFile(S("user"), Directory) EXCEPT !.Parent = 2] >>,
   cur |-> 3, prev |-> 3]

\* GetAbsolutePath
GlmGetAbsolutePath(s, path) ==
  IF HasPrefix(path, Slash) THEN [path |-> path, bad |-> "nil"]
  ELSE LET cp == GlmGetPath(s.heap, s.cur) IN
    [path |-> IF cp.path = Slash THEN Slash \o path ELSE cp.path \o Slash \o path, bad |-> cp.bad]

RECURSIVE GlmWalk(_, _, _)
\* the component loop of ResolvePath
GlmWalk(h, current, components) ==
  IF components = <<>> THEN [node |-> current, err |-> "nil"]
  ELSE LET component == Head(components) IN
    IF component = <<>> \/ component = Dot THEN GlmWalk(h, current, Tail(components))
    ELSE IF component = DotDot THEN
      GlmWalk(h, IF h[current].Parent # Nil THEN h[current].Parent ELSE current, Tail(components))
    ELSE IF component \notin DOMAIN h[current].Children THEN [node |-> Nil, err |-> "path not found: %s"]
    ELSE GlmWalk(h, h[current].Children[component], Tail(components))

GlmResolvePath(s, path) ==
  IF path = <<>> THEN [node |-> s.cur, err |-> "nil"]
  ELSE IF path = Tilde THEN
    IF S("home") \notin DOMAIN s.heap[Root].Children THEN [node |-> Nil, err |-> "home directory not found"]
    ELSE IF S("user") \notin DOMAIN s.heap[s.heap[Root].Children[S("home")]].Children
      THEN [node |-> Nil, err |-> "user directory not found"]
    ELSE [node |-> s.heap[s.heap[Root].Children[S("home")]].Children[S("user")], err |-> "nil"]
  ELSE IF path = Dash THEN [node |-> s.prev, err |-> "nil"]
  ELSE LET abs == GlmGetAbsolutePath(s, path) IN
    IF abs.bad # "nil" THEN [node |-> Nil, err |-> abs.bad]
    ELSE GlmWalk(s.heap, Root, SplitSlash(abs.path))

\* Cd; noArgs is the call without arguments
GlmCd(s, path, noArgs) ==
  IF noArgs THEN
    IF S("home") \notin DOMAIN s.heap[Root].Children
      THEN {Outcome(s.heap, s.cur, s.cur, "cd: home directory not found")}
    ELSE IF S("user") \notin DOMAIN s.heap[s.heap[Root].Children[S("home")]].Children
      THEN {Outcome(s.heap, s.cur, s.cur, "cd: user directory not found")}
    ELSE {Outcome(s.heap, s.heap[s.heap[Root].Children[S("home")]].Children[S("user")], s.cur, "nil")}
  ELSE IF path = Dash THEN
    IF s.prev = Nil THEN {Fail(s, "cd: no previous directory")}
    ELSE {Outcome(s.heap, s.prev, s.cur,
                  IF GlmGetPath(s.heap, s.prev).bad # "nil" THEN GlmGetPath(s.heap, s.prev).bad ELSE "nil")}
  ELSE LET r == GlmResolvePath(s, path) IN
    IF r.err # "nil" THEN {Fail(s, r.err)}
    ELSE IF s.heap[r.node].Type # Directory THEN {Fail(s, "cd: %s: Not a directory")}
    ELSE {Outcome(s.heap, r.node, s.cur, "nil")}

\* the directory and the name that Touch, Cp, Mv, Mkdir and Echo split a path
\* into at its last "/"; minSlash is the least index the "/" must have
GlmSplit(s, path, minSlash) ==
  IF ContainsSlash(path) /\ LastIndexSlash(path) >= minSlash THEN
    LET r == GlmResolvePath(s, SubSeq(path, 1, LastIndexSlash(path) - 1)) IN
      [dir |-> r.node, name |-> SubSeq(path, LastIndexSlash(path) + 1, Len(path)),
       err |-> IF r.err # "nil" THEN r.err
               ELSE IF s.heap[r.node].Type # Directory THEN "%s: Not a directory" ELSE "nil"]
  ELSE [dir |-> s.cur, name |-> path, err |-> "nil"]

\* Touch with one operand
GlmTouch(s, arg) ==
  LET d == GlmSplit(s, arg, 2) IN
    IF d.err # "nil" THEN {Fail(s, d.err)}
    ELSE IF d.name \in DOMAIN s.heap[d.dir].Children THEN {Done(s, s.heap)}
    ELSE LET r == GlmCreate(s.heap, d.dir, d.name, RegularFile) IN
      {Outcome(IF r.err = "nil" THEN r.heap ELSE s.heap, s.cur, s.prev, r.err)}

\* the removal at the end of Rm and Rmdir
GlmUnlink(s, target, rootMsg) ==
  IF s.heap[target].Parent # Nil THEN
    LET r == GlmRemoveChild(s.heap, s.heap[target].Parent, s.heap[target].Name) IN
      {Outcome(r.heap, s.cur, s.prev, r.err)}
  ELSE {Fail(s, rootMsg)}

\* Rm with one operand
GlmRm(s, arg, recursive) ==
  LET r == GlmResolvePath(s, arg) IN
    IF r.err # "nil" THEN {Fail(s, r.err)}
    ELSE IF s.heap[r.node].Type = Directory /\ DOMAIN s.heap[r.node].Children # {} /\ ~recursive
      THEN {Fail(s, "rm: cannot remove '%s': Is a directory")}
    ELSE GlmUnlink(s, r.node, "rm: cannot remove root directory")

\* Rmdir with one operand
GlmRmdir(s, arg) ==
  LET r == GlmResolvePath(s, arg) IN
    IF r.err # "nil" THEN {Fail(s, r.err)}
    ELSE IF s.heap[r.node].Type # Directory THEN {Fail(s, "rmdir: failed to remove '%s': Not a directory")}
    ELSE IF DOMAIN s.heap[r.node].Children # {}
      THEN {Fail(s, "rmdir: failed to remove '%s': Directory not empty")}
    ELSE GlmUnlink(s, r.node, "rmdir: cannot remove root directory")

\* the destination directory and name that Cp and Mv compute for destPath
GlmDest(s, source, destPath) ==
  IF ContainsSlash(destPath) THEN GlmSplit(s, destPath, 1)
  ELSE LET r == GlmResolvePath(s, destPath) IN
    IF r.err \in Dead THEN [dir |-> Nil, name |-> <<>>, err |-> r.err]
    ELSE IF r.err = "nil" /\ s.heap[r.node].Type = Directory
      THEN [dir |-> r.node, name |-> s.heap[source].Name, err |-> "nil"]
    ELSE [dir |-> s.cur, name |-> destPath, err |-> "nil"]

RECURSIVE GlmCopyFileOrDirectory(_, _, _, _, _, _)
RECURSIVE GlmCopyLoop(_, _, _, _, _)
\* copyFileOrDirectory: every result.  base is the number of nodes there were
\* when Cp was called: a recursive copy that comes to copy a directory it has
\* created itself (the destination lies inside the source) finds a newer one
\* inside it each time and recurses until the stack is exhausted.
GlmCopyFileOrDirectory(h, source, destDir, destName, recursive, base) ==
  LET a == GlmCreate(h, destDir, destName, h[source].Type)
      newFile == Len(h) + 1 IN
    IF a.err # "nil" THEN {a}
    ELSE IF h[source].Type = RegularFile THEN
      {[heap |-> [a.heap EXCEPT ![newFile].Content = h[source].Content, ![newFile].Size = Len(h[source].Content)],
        err |-> "nil"]}
    ELSE IF ~recursive THEN {[heap |-> a.heap, err |-> "omitting directory '%s'"]}
    ELSE IF source > base THEN {[heap |-> h, err |-> "PANIC"]}
    ELSE GlmCopyLoop(a.heap, source, newFile, {}, base)

\* the range over source.Children, visited being the keys already produced
GlmCopyLoop(h, source, newFile, visited, base) ==
  LET keys == (DOMAIN h[source].Children) \ visited IN
  IF keys = {} THEN {[heap |-> h, err |-> "nil"]}
  ELSE UNION {
    UNION { IF r.err # "nil" THEN {r}
            ELSE GlmCopyLoop(r.heap, source, newFile, visited \cup {name}, base)
            : r \in GlmCopyFileOrDirectory(h, h[source].Children[name], newFile, name, TRUE, base) }
    : name \in keys }

\* Cp
GlmCp(s, sourcePath, destPath, recursive) ==
  LET r == GlmResolvePath(s, sourcePath) IN
    IF r.err # "nil" THEN {Fail(s, r.err)}
    ELSE LET d == GlmDest(s, r.node, destPath) IN
      IF d.err # "nil" THEN {Fail(s, d.err)}
      ELSE IF d.name \in DOMAIN s.heap[d.dir].Children
        THEN {Fail(s, "cp: cannot create regular file '%s': File exists")}
      ELSE { Outcome(c.heap, s.cur, s.prev, c.err)
             : c \in GlmCopyFileOrDirectory(s.heap, r.node, d.dir, d.name, recursive, Len(s.heap)) }

\* Mv
GlmMv(s, sourcePath, destPath) ==
  LET r == GlmResolvePath(s, sourcePath) IN
    IF r.err # "nil" THEN {Fail(s, r.err)}
    ELSE LET source == r.node
             d == GlmDest(s, source, destPath) IN
      IF d.err # "nil" THEN {Fail(s, d.err)}
      ELSE IF d.name \in DOMAIN s.heap[d.dir].Children
        THEN {Fail(s, "mv: cannot move '%s' to '%s': File exists")}
      ELSE IF s.heap[source].Parent = Nil THEN {Fail(s, "mv: cannot move root directory")}
      ELSE LET h1 == GlmRemoveChild(s.heap, s.heap[source].Parent, s.heap[source].Name).heap
               h2 == [h1 EXCEPT ![source].Name = d.name]
               a == GlmAddChild(h2, d.dir, source) IN
        IF a.err = "nil" THEN {Done(s, a.heap)}
        ELSE {Outcome(GlmAddChild(h2, h2[source].Parent, source).heap, s.cur, s.prev, a.err)}

\* createSingleDirectory
GlmCreateSingleDirectory(s, path) ==
  LET d == GlmSplit(s, path, 1) IN
    IF d.err # "nil" THEN {Fail(s, d.err)}
    ELSE IF d.name \in DOMAIN s.heap[d.dir].Children
      THEN {Fail(s, "mkdir: cannot create directory '%s': File exists")}
    ELSE LET r == GlmCreate(s.heap, d.dir, d.name, Directory) IN
      {Outcome(IF r.err = "nil" THEN r.heap ELSE s.heap, s.cur, s.prev, r.err)}

RECURSIVE GlmParentsLoop(_, _, _)
\* the component loop of createDirectoryWithParents
GlmParentsLoop(h, current, components) ==
  IF components = <<>> THEN [heap |-> h, err |-> "nil"]
  ELSE LET component == Head(components) IN
    IF component = <<>> THEN GlmParentsLoop(h, current, Tail(components))
    ELSE IF component \in DOMAIN h[current].Children THEN
      IF h[h[current].Children[component]].Type # Directory
        THEN [heap |-> h, err |-> "mkdir: cannot create directory '%s': File exists"]
      ELSE GlmParentsLoop(h, h[current].Children[component], Tail(components))
    ELSE LET r == GlmCreate(h, current, component, Directory) IN
      IF r.err # "nil" THEN [heap |-> h, err |-> r.err]
      ELSE GlmParentsLoop(r.heap, Len(h) + 1, Tail(components))

\* createDirectoryWithParents
GlmCreateDirectoryWithParents(s, path) ==
  LET r == GlmParentsLoop(s.heap, IF HasPrefix(path, Slash) THEN Root ELSE s.cur, SplitSlash(path)) IN
    {Outcome(r.heap, s.cur, s.prev, r.err)}

\* Mkdir with one operand
GlmMkdir(s, arg, createParents) ==
  IF createParents THEN GlmCreateDirectoryWithParents(s, arg) ELSE GlmCreateSingleDirectory(s, arg)

\* an UpdateContent that keeps what the file held and adds the new bytes
GlmAddContent(h, vf, content) ==
  IF h[vf].Type # RegularFile THEN h
  ELSE [h EXCEPT ![vf].Content = @ \o content, ![vf].Size = @ + Len(content)]

\* an UpdateContent that stores the bytes and leaves Size as it was
GlmSetContent(h, vf, content) ==
  [h EXCEPT ![vf].Content = content]

\* vf.UpdateContent(content)
GlmUpdateContent(h, vf, content) ==
  IF h[vf].Type # RegularFile THEN h
  ELSE [h EXCEPT ![vf].Content = content, ![vf].Size = Len(content)]

\* Echo with a redirection: text > redirectFile, or text >> redirectFile
GlmEcho(s, text, redirectFile, append) ==
  LET r == GlmResolvePath(s, redirectFile) IN
    IF r.err \in Dead THEN {Fail(s, r.err)}
    ELSE IF r.err # "nil" THEN
      LET d == GlmSplit(s, redirectFile, 1) IN
        IF d.err # "nil" THEN {Fail(s, d.err)}
        ELSE LET a == GlmCreate(s.heap, d.dir, d.name, RegularFile) IN
          IF a.err # "nil" THEN {Fail(s, a.err)}
          ELSE {Done(s, GlmUpdateContent(a.heap, Len(s.heap) + 1, text))}
    ELSE IF s.heap[r.node].Type # RegularFile THEN {Fail(s, "echo: %s: Is a directory")}
    ELSE {Done(s, GlmUpdateContent(s.heap, r.node,
                                   IF append THEN s.heap[r.node].Content \o text ELSE text))}

\* Cat with one operand: what it prints
GlmCat(s, arg) ==
  LET r == GlmResolvePath(s, arg) IN
    IF r.err # "nil" THEN [out |-> <<>>, err |-> r.err]
    ELSE IF s.heap[r.node].Type # RegularFile THEN [out |-> <<>>, err |-> "cat: %s: Is a directory"]
    ELSE [out |-> s.heap[r.node].Content, err |-> "nil"]

\* Edit: the file is resolved, or created as Echo creates it, and handed to
\* runEditor; of the editor session the model keeps whether a ":w" or ":wq"
\* was given and the content, the lines joined by "\n", that it saved
GlmEdit(s, filename, save, content) ==
  LET r == GlmResolvePath(s, filename) IN
    IF r.err \in Dead THEN {Fail(s, r.err)}
    ELSE IF r.err # "nil" THEN
      LET d == GlmSplit(s, filename, 1) IN
        IF d.err # "nil" THEN {Fail(s, d.err)}
        ELSE LET a == GlmCreate(s.heap, d.dir, d.name, RegularFile) IN
          IF a.err # "nil" THEN {Fail(s, a.err)}
          ELSE {Done(s, IF save THEN GlmUpdateContent(a.heap, Len(s.heap) + 1, content) ELSE a.heap)}
    ELSE IF s.heap[r.node].Type # RegularFile THEN {Fail(s, "edit: %s: Is a directory")}
    ELSE {Done(s, IF save THEN GlmUpdateContent(s.heap, r.node, content) ELSE s.heap)}

\* ------------------------------------------------------------ sessions
\* The state of the session in hand
Cur == [heap |-> heap, cur |-> CurrentDir, prev |-> PrevDir]

\* last and pre describe the final call of the command sequence explored so
\* far: its name and arguments, what it returned, and the state it started
\* from.  A sequence is extended only while no call has been recorded as
\* final, and it has at most MaxCalls calls.
NoPre == [heap |-> <<>>, cur |-> Nil, prev |-> Nil]

\* prior is the successful call (a Cp, or an overwriting EchoWrite) that a
\* final call directly follows, if any, with the state it started from.
NoPrior == [op |-> "none", path |-> <<>>, path2 |-> <<>>, flag |-> FALSE, text |-> <<>>,
            pre |-> NoPre]

NoCall == [op |-> "none", path |-> <<>>, path2 |-> <<>>, flag |-> FALSE, text |-> <<>>,
           err |-> "nil", rec |-> FALSE, prior |-> NoPrior]

Call(op, path, path2, flag, text, err) ==
  [op |-> op, path |-> path, path2 |-> path2, flag |-> flag, text |-> text, err |-> err, rec |-> TRUE,
   prior |-> IF last.rec
               THEN [op |-> last.op, path |-> last.path, path2 |-> last.path2, flag |-> last.flag,
                     text |-> last.text, pre |-> pre]
             ELSE NoPrior]

\* the session can take one more call: none has been recorded as final, or
\* the one recorded is a successful Cp or overwriting EchoWrite, which one
\* more call may follow
Open ==
  /\ calls < MaxCalls
  /\ last.rec => /\ last.op = "Cp" \/ (last.op = "EchoWrite" /\ ~last.flag)
                 /\ last.err = "nil" /\ last.prior.op = "none"

\* one call with outcome r; a call that never returns ends the session
Step(r, call, rec) ==
  /\ rec \/ (r.err \notin Dead /\ calls + 1 < MaxCalls /\ ~last.rec)
  /\ calls' = calls + 1
  /\ heap' = IF r.err \in Dead THEN heap ELSE r.heap
  /\ CurrentDir' = r.cur
  /\ PrevDir' = r.prev
  /\ last' = IF rec THEN call ELSE NoCall
  /\ pre' = IF rec THEN Cur ELSE NoPre

\* --------------------------------------------- sonoma-sky-alpha: sessions
\* the path arguments of the calls
Paths == { S("a"), S("b"), <<"a", "/", "b">>, DotDot, Slash }

\* the arguments of the cd commands; the empty one is cd without argument
CdPaths == Paths \cup { <<>>, Dash, Tilde }

\* the text arguments of the echo commands
Texts == { S("x"), S("y") }

SkyInit ==
  /\ heap = SkyNewFileSystem.heap
  /\ CurrentDir = SkyNewFileSystem.cur
  /\ PrevDir = SkyNewFileSystem.prev
  /\ last = NoCall
  /\ pre = NoPre
  /\ calls = 0

SkyCallCd ==
  Open /\ \E path \in CdPaths, rec \in BOOLEAN : \E r \in SkyCd(Cur, path) :
    Step(r, Call("Cd", path, <<>>, FALSE, <<>>, r.err), rec)

SkyCallMkdir ==
  Open /\ \E path \in Paths \cup { Slash \o S("a") }, parents \in BOOLEAN, rec \in BOOLEAN : \E r \in SkyMkdir(Cur, path, parents) :
    Step(r, Call("Mkdir", path, <<>>, parents, <<>>, r.err), rec)

SkyCallTouch ==
  Open /\ \E path \in Paths \cup { <<".", "a">> }, rec \in BOOLEAN : \E r \in SkyTouch(Cur, path) :
    Step(r, Call("Touch", path, <<>>, FALSE, <<>>, r.err), rec)

SkyCallRm ==
  Open /\ \E path \in Paths, recursive \in BOOLEAN, rec \in BOOLEAN : \E r \in SkyRm(Cur, path, recursive) :
    Step(r, Call("Rm", path, <<>>, recursive, <<>>, r.err), rec)

SkyCallRmdir ==
  Open /\ \E path \in Paths, rec \in BOOLEAN : \E r \in SkyRmdir(Cur, path) :
    Step(r, Call("Rmdir", path, <<>>, FALSE, <<>>, r.err), rec)

SkyCallCp ==
  Open /\ \E source \in Paths, dest \in Paths, recursive \in BOOLEAN, rec \in BOOLEAN :
    \E r \in SkyCp(Cur, source, dest, recursive) :
      Step(r, Call("Cp", source, dest, recursive, <<>>, r.err), rec)

SkyCallMv ==
  Open /\ \E source \in Paths, dest \in Paths, rec \in BOOLEAN : \E r \in SkyMv(Cur, source, dest) :
    Step(r, Call("Mv", source, dest, FALSE, <<>>, r.err), rec)

SkyCallEchoWrite ==
  Open /\ \E text \in Texts, path \in Paths, appendMode \in BOOLEAN, rec \in BOOLEAN :
    \E r \in SkyEchoWrite(Cur, text, path, appendMode) :
      Step(r, Call("EchoWrite", path, <<>>, appendMode, text, r.err), rec)

\* Ls changes nothing, so it is taken as the last call of a session, with the
\* text it returned recorded in last.text
SkyCallLs ==
  Open /\ \E path \in Paths \cup { <<>> }, all \in BOOLEAN : \E r \in SkyLs(Cur, path, all) :
    Step(Outcome(heap, CurrentDir, PrevDir, r.err), Call("Ls", path, <<>>, all, r.out, r.err), TRUE)

SkyNext ==
  \/ SkyCallCd
  \/ SkyCallMkdir
  \/ SkyCallTouch
  \/ SkyCallRm
  \/ SkyCallRmdir
  \/ SkyCallCp
  \/ SkyCallMv
  \/ SkyCallEchoWrite
  \/ SkyCallLs

SpecSky == SkyInit /\ [][SkyNext]_vars

\* ------------------------------------------------------------ observers
\* the state the recorded call left
Post == [heap |-> heap, cur |-> CurrentDir, prev |-> PrevDir]

RECURSIVE Closure(_, _)
\* the nodes reachable from the set ns through Children maps
Closure(h, ns) ==
  LET step == ns \cup UNION { { h[n].Children[k] : k \in DOMAIN h[n].Children } : n \in ns }
  IN IF step = ns THEN ns ELSE Closure(h, step)

\* the subtree of node t: t and everything below it
Subtree(h, t) == Closure(h, {t})

RECURSIVE ReachesRoot(_, _, _)
\* following Parent links from n arrives at Root within fuel steps
ReachesRoot(h, n, fuel) ==
  IF n = Root THEN TRUE
  ELSE IF n = Nil \/ fuel = 0 THEN FALSE
  ELSE ReachesRoot(h, h[n].Parent, fuel - 1)

\* every node some Children map holds
Stored(h) == UNION { { h[n].Children[k] : k \in DOMAIN h[n].Children } : n \in 1..Len(h) }

\* the recorded call returned (it neither panicked nor hung)
Returned == last.rec /\ last.err \notin Dead

\* ------------------------------------------------- sonoma-sky-alpha: claims
\* the absolute paths under which the nodes of state s are known
SkyProbes(s) == { SkyGetPath(s.heap, n).path : n \in 1..Len(s.heap) }

\* path p resolves in state t to a node of the kind and content it had in s
SkyKept(s, t, p) ==
  /\ SkyResolvePath(t, p).err = "nil"
  /\ t.heap[SkyResolvePath(t, p).node].Type = s.heap[SkyResolvePath(s, p).node].Type
  /\ t.heap[SkyResolvePath(t, p).node].Content = s.heap[SkyResolvePath(s, p).node].Content

\* C1: in every reachable state of sonoma-sky-alpha no node is its own
\* ancestor: the Parent links from CurrentDir, from PrevDir and from every
\* node stored in a Children map lead to Root.
C1_SkyNoSelfAncestor ==
  \A n \in {CurrentDir, PrevDir} \cup Stored(heap) : ReachesRoot(heap, n, Len(heap))

\* C2: a successful Rm(path, true) on a directory T removes nothing outside
\* T's subtree: every absolute path that resolved to a node outside it still
\* resolves, to the same kind and content.
C2_SkyRmRecursiveFrame ==
  (Returned /\ last.op = "Rm" /\ last.flag /\ last.err = "nil"
     /\ pre.heap[SkyResolvePath(pre, last.path).node].Type = Directory)
  => \A p \in SkyProbes(pre) :
       (SkyResolvePath(pre, p).err = "nil"
          /\ SkyResolvePath(pre, p).node \notin Subtree(pre.heap, SkyResolvePath(pre, last.path).node))
       => SkyKept(pre, Post, p)

\* C5: a Mv call that returns an error leaves the tree and the cursor as they
\* were.
C5_SkyMvErrorUnchanged ==
  (Returned /\ last.op = "Mv" /\ last.err # "nil") => Post = pre

\* C9: EchoWrite on a path that names an existing directory returns an error,
\* for append and for overwrite, and the directory and its subtree stay.
C9_SkyEchoWriteOnDirectory ==
  (Returned /\ last.op = "EchoWrite" /\ SkyResolvePath(pre, last.path).err = "nil"
     /\ pre.heap[SkyResolvePath(pre, last.path).node].Type = Directory)
  => /\ last.err # "nil"
     /\ SkyResolvePath(Post, last.path).err = "nil"
     /\ SkyResolvePath(Post, last.path).node = SkyResolvePath(pre, last.path).node
     /\ \A n \in Subtree(pre.heap, SkyResolvePath(pre, last.path).node) : heap[n] = pre.heap[n]


\* ------------------------------------------------ sonoma-dusk-alpha: sessions
\* the depth allowed to the nested calls of Copy
DuskFuel(s) == 2 * Len(s.heap) + 2

DuskInit ==
  /\ heap = DuskNewTerminal.heap
  /\ CurrentDir = DuskNewTerminal.cur
  /\ PrevDir = DuskNewTerminal.prev
  /\ last = NoCall
  /\ pre = NoPre
  /\ calls = 0

DuskCallChangeDir ==
  Open /\ \E path \in CdPaths, rec \in BOOLEAN : \E r \in DuskChangeDir(Cur, path) :
    Step(r, Call("ChangeDir", path, <<>>, FALSE, <<>>, r.err), rec)

DuskCallMkDir ==
  Open /\ \E path \in Paths, parents \in BOOLEAN, rec \in BOOLEAN : \E r \in DuskMkDir(Cur, path, parents) :
    Step(r, Call("MkDir", path, <<>>, parents, <<>>, r.err), rec)

DuskCallTouch ==
  Open /\ \E path \in Paths, rec \in BOOLEAN : \E r \in DuskTouch(Cur, path) :
    Step(r, Call("Touch", path, <<>>, FALSE, <<>>, r.err), rec)

DuskCallEcho ==
  Open /\ \E path \in Paths, text \in Texts, appendMode \in BOOLEAN, rec \in BOOLEAN :
    \E r \in DuskEcho(Cur, text, path, appendMode) :
      Step(r, Call("Echo", path, <<>>, appendMode, text, r.err), rec)

DuskCallRm ==
  Open /\ \E path \in Paths, recursive \in BOOLEAN, rec \in BOOLEAN :
    \E r \in DuskRm(Cur, path, recursive, {}) :
      Step(r, Call("Rm", path, <<>>, recursive, <<>>, r.err), rec)

DuskCallRmDir ==
  Open /\ \E path \in Paths, rec \in BOOLEAN : \E r \in DuskRmDir(Cur, path) :
    Step(r, Call("RmDir", path, <<>>, FALSE, <<>>, r.err), rec)

DuskCallCopy ==
  Open /\ \E src \in Paths, dest \in Paths, recursive \in BOOLEAN, rec \in BOOLEAN :
    \E r \in DuskCopy(Cur, src, dest, recursive, DuskFuel(Cur)) :
      Step(r, Call("Copy", src, dest, recursive, <<>>, r.err), rec)

DuskCallMove ==
  Open /\ \E src \in Paths, dest \in Paths, rec \in BOOLEAN : \E r \in DuskMove(Cur, src, dest) :
    Step(r, Call("Move", src, dest, FALSE, <<>>, r.err), rec)

DuskNext ==
  \/ DuskCallChangeDir
  \/ DuskCallMkDir
  \/ DuskCallTouch
  \/ DuskCallEcho
  \/ DuskCallRm
  \/ DuskCallRmDir
  \/ DuskCallCopy
  \/ DuskCallMove

SpecDusk == DuskInit /\ [][DuskNext]_vars

\* -------------------------------------------------- sonoma-dusk-alpha: claims
\* the absolute path of node n, by its Parent links
DuskPathOf(h, n) == IF n = Root THEN Slash ELSE DuskPathLoop(h, n, Len(h)).path

\* the absolute paths under which the nodes of state s are known
DuskProbes(s) == { DuskPathOf(s.heap, n) : n \in 1..Len(s.heap) }

\* path p resolves in state t to a node of the kind and content it had in s
DuskKept(s, t, p) ==
  /\ DuskResolvePath(t, p).err = "nil"
  /\ t.heap[DuskResolvePath(t, p).node].Type = s.heap[DuskResolvePath(s, p).node].Type
  /\ t.heap[DuskResolvePath(t, p).node].Content = s.heap[DuskResolvePath(s, p).node].Content

\* C3: a successful Rm(path, true) on a directory T removes nothing outside
\* T's subtree, whatever the current directory: every absolute path that
\* resolved to a node outside the subtree still resolves, to the same kind and
\* content.
C3_DuskRmRecursiveFrame ==
  (Returned /\ last.op = "Rm" /\ last.flag /\ last.err = "nil"
     /\ pre.heap[DuskResolvePath(pre, last.path).node].Type = Directory)
  => \A p \in DuskProbes(pre) :
       (DuskResolvePath(pre, p).err = "nil"
          /\ DuskResolvePath(pre, p).node \notin Subtree(pre.heap, DuskResolvePath(pre, last.path).node))
       => DuskKept(pre, Post, p)

\* C4: Rm("/", r), RmDir("/") and Move("/", dest) return an error, and
\* afterwards Root is named "/", has no parent and is in no Children map.
C4_DuskRootImmutable ==
  (Returned /\ last.op \in {"Rm", "RmDir", "Move"} /\ last.path = Slash)
  => /\ last.err # "nil"
     /\ heap[Root].Name = Slash
     /\ heap[Root].Parent = Nil
     /\ Root \notin Stored(heap)

RECURSIVE SameTree(_, _, _, _, _)
\* the subtree of a in heap g and the subtree of b in heap h have the same
\* names, kinds and file contents at every depth below their tops
SameTree(g, a, h, b, fuel) ==
  /\ g[a].Type = h[b].Type
  /\ g[a].Type = RegularFile => g[a].Content = h[b].Content
  /\ DOMAIN g[a].Children = DOMAIN h[b].Children
  /\ fuel > 0 => \A k \in DOMAIN g[a].Children :
       SameTree(g, g[a].Children[k], h, h[b].Children[k], fuel - 1)

\* the node Copy stores its result under: entry Base(dest) of the directory
\* Dir(dest) resolved to before the call
DuskCopyResult(s, t, dest) ==
  LET parent == DuskResolvePath(s, FilepathDir(dest)).node IN
    IF FilepathBase(dest) \in DOMAIN t.heap[parent].Children
      THEN t.heap[parent].Children[FilepathBase(dest)] ELSE Nil

\* C10: a Copy(src, dest, true) of a directory that returns nil leaves at the
\* destination a tree with the names, kinds and file contents that src's
\* subtree had before the call, at every depth (the destination lying outside
\* src's subtree).
C10_DuskCopyRecursiveSameTree ==
  (Returned /\ last.op = "Copy" /\ last.flag /\ last.err = "nil"
     /\ pre.heap[DuskResolvePath(pre, last.path).node].Type = Directory
     /\ DuskResolvePath(pre, FilepathDir(last.path2)).node
          \notin Subtree(pre.heap, DuskResolvePath(pre, last.path).node))
  => /\ DuskCopyResult(pre, Post, last.path2) # Nil
     /\ SameTree(pre.heap, DuskResolvePath(pre, last.path).node,
                 heap, DuskCopyResult(pre, Post, last.path2), Len(pre.heap))


\* ------------------------------------------------- grok-code-fast-1: sessions
GrokInit ==
  /\ heap = GrokNewFileSystem.heap
  /\ CurrentDir = GrokNewFileSystem.cur
  /\ PrevDir = GrokNewFileSystem.prev
  /\ last = NoCall
  /\ pre = NoPre
  /\ calls = 0

GrokCallCd ==
  Open /\ \E path \in CdPaths, rec \in BOOLEAN : \E r \in GrokCd(Cur, path, path = <<>>) :
    Step(r, Call("cmdCd", path, <<>>, FALSE, <<>>, r.err), rec)

GrokCallMkdir ==
  Open /\ \E path \in Paths, createParents \in BOOLEAN, rec \in BOOLEAN :
    \E r \in GrokMkdir(Cur, path, createParents) :
      Step(r, Call("cmdMkdir", path, <<>>, createParents, <<>>, r.err), rec)

GrokCallRmdir ==
  Open /\ \E path \in Paths, rec \in BOOLEAN : \E r \in GrokRmdir(Cur, path) :
    Step(r, Call("cmdRmdir", path, <<>>, FALSE, <<>>, r.err), rec)

GrokCallTouch ==
  Open /\ \E path \in Paths, rec \in BOOLEAN : \E r \in GrokTouch(Cur, path) :
    Step(r, Call("cmdTouch", path, <<>>, FALSE, <<>>, r.err), rec)

GrokCallRm ==
  Open /\ \E path \in Paths, recursive \in BOOLEAN, rec \in BOOLEAN : \E r \in GrokRm(Cur, path, recursive) :
    Step(r, Call("cmdRm", path, <<>>, recursive, <<>>, r.err), rec)

GrokCallCp ==
  Open /\ \E source \in Paths, dest \in Paths, recursive \in BOOLEAN, rec \in BOOLEAN :
    \E r \in GrokCp(Cur, source, dest, recursive) :
      Step(r, Call("cmdCp", source, dest, recursive, <<>>, r.err), rec)

GrokCallMv ==
  Open /\ \E source \in Paths, dest \in Paths, rec \in BOOLEAN : \E r \in GrokMv(Cur, source, dest) :
    Step(r, Call("cmdMv", source, dest, FALSE, <<>>, r.err), rec)

GrokNext ==
  \/ GrokCallCd
  \/ GrokCallMkdir
  \/ GrokCallRmdir
  \/ GrokCallTouch
  \/ GrokCallRm
  \/ GrokCallCp
  \/ GrokCallMv

SpecGrok == GrokInit /\ [][GrokNext]_vars

\* --------------------------------------------------- grok-code-fast-1: claims
\* C6: when cmdMv returns an error, the node the source resolved to is still
\* the entry of its original parent under its original name.
C6_GrokMvErrorKeepsSource ==
  (Returned /\ last.op = "cmdMv" /\ last.err # "nil"
     /\ GrokResolvePath(pre, last.path).err = "nil"
     /\ GrokResolvePath(pre, last.path).node # Nil)
  => LET n == GrokResolvePath(pre, last.path).node
         parent == pre.heap[n].Parent
         name == pre.heap[n].Name
     IN (name \in DOMAIN pre.heap[parent].Children /\ pre.heap[parent].Children[name] = n)
        => (name \in DOMAIN heap[parent].Children /\ heap[parent].Children[name] = n)

\* C8: no command of a session ends in a runtime panic: every call returns a
\* CommandResult.
C8_GrokNoPanic ==
  last.rec => last.err # "PANIC"


\* ---------------------------------------------------------- glm-4.5: sessions
GlmInit ==
  /\ heap = GlmNewFileSystem.heap
  /\ CurrentDir = GlmNewFileSystem.cur
  /\ PrevDir = GlmNewFileSystem.prev
  /\ last = NoCall
  /\ pre = NoPre
  /\ calls = 0

GlmCallCd ==
  Open /\ \E path \in CdPaths, rec \in BOOLEAN : \E r \in GlmCd(Cur, path, path = <<>>) :
    Step(r, Call("Cd", path, <<>>, FALSE, <<>>, r.err), rec)

GlmCallTouch ==
  Open /\ \E arg \in Paths, rec \in BOOLEAN : \E r \in GlmTouch(Cur, arg) :
    Step(r, Call("Touch", arg, <<>>, FALSE, <<>>, r.err), rec)

GlmCallRm ==
  Open /\ \E arg \in Paths, recursive \in BOOLEAN, rec \in BOOLEAN : \E r \in GlmRm(Cur, arg, recursive) :
    Step(r, Call("Rm", arg, <<>>, recursive, <<>>, r.err), rec)

GlmCallRmdir ==
  Open /\ \E arg \in Paths, rec \in BOOLEAN : \E r \in GlmRmdir(Cur, arg) :
    Step(r, Call("Rmdir", arg, <<>>, FALSE, <<>>, r.err), rec)

GlmCallCp ==
  Open /\ \E sourcePath \in Paths, destPath \in Paths, recursive \in BOOLEAN, rec \in BOOLEAN :
    \E r \in GlmCp(Cur, sourcePath, destPath, recursive) :
      Step(r, Call("Cp", sourcePath, destPath, recursive, <<>>, r.err), rec)

GlmCallMv ==
  Open /\ \E sourcePath \in Paths, destPath \in Paths, rec \in BOOLEAN :
    \E r \in GlmMv(Cur, sourcePath, destPath) :
      Step(r, Call("Mv", sourcePath, destPath, FALSE, <<>>, r.err), rec)

GlmCallEdit ==
  Open /\ \E filename \in Paths, save \in BOOLEAN, rec \in BOOLEAN :
    \E content \in (IF save THEN Texts \cup {<<>>} ELSE {<<>>}) :
      \E r \in GlmEdit(Cur, filename, save, content) :
        Step(r, Call("Edit", filename, <<>>, save, content, r.err), rec)

GlmCallMkdir ==
  Open /\ \E arg \in Paths, createParents \in BOOLEAN, rec \in BOOLEAN :
    \E r \in GlmMkdir(Cur, arg, createParents) :
      Step(r, Call("Mkdir", arg, <<>>, createParents, <<>>, r.err), rec)

GlmCallEcho ==
  Open /\ \E redirectFile \in Paths, text \in Texts, append \in BOOLEAN, rec \in BOOLEAN :
    \E r \in GlmEcho(Cur, text, redirectFile, append) :
      Step(r, Call("Echo", redirectFile, <<>>, append, text, r.err), rec)

GlmNext ==
  \/ GlmCallCd
  \/ GlmCallTouch
  \/ GlmCallRm
  \/ GlmCallRmdir
  \/ GlmCallCp
  \/ GlmCallMv
  \/ GlmCallMkdir
  \/ GlmCallEcho
  \/ GlmCallEdit

SpecGlm == GlmInit /\ [][GlmNext]_vars

\* ------------------------------------------------------------ glm-4.5: claims
\* C7: cp of a directory without -r reports an error and creates no node:
\* every Children map, the destination parent's included, is what it was
\* before the command.
C7_GlmCpDirectoryNoFlag ==
  (Returned /\ last.op = "Cp" /\ ~last.flag
     /\ GlmResolvePath(pre, last.path).err = "nil"
     /\ pre.heap[GlmResolvePath(pre, last.path).node].Type = Directory)
  => /\ last.err # "nil"
     /\ Len(heap) = Len(pre.heap)
     /\ \A n \in 1..Len(pre.heap) : heap[n].Children = pre.heap[n].Children


\* C11: after Cp(a, b, r) has succeeded, the source and the copy have no
\* node in common, and a following EchoWrite, Touch, Rm or Mv whose paths
\* all lie at or under the copy's path leaves the Content and Children of
\* every node of the source's subtree as they were, and the other way round
\* (a still naming the source after the Cp, the two paths being distinct
\* and neither under the other).
C11_SkyCopyIndependent ==
  (Returned /\ last.prior.op = "Cp" /\ last.op \in {"EchoWrite", "Touch", "Rm", "Mv"}) =>
    LET s0 == last.prior.pre
        a == last.prior.path
        b == last.prior.path2
        src == SkyResolvePath(s0, a).node
        d == SkyDest(s0, src, b)
        cpy == pre.heap[d.parent].Children[d.name]
        c == IF d.name = FilepathBase(b) THEN b
             ELSE IF b = Slash THEN Slash \o d.name ELSE b \o Slash \o d.name
        Under(p, q) == p = q \/ HasPrefix(p, IF q = Slash THEN q ELSE q \o Slash)
        args == IF last.op = "Mv" THEN {last.path, last.path2} ELSE {last.path}
        apart == /\ SkyResolvePath(pre, a) = [node |-> src, err |-> "nil"]
                 /\ ~Under(a, c) /\ ~Under(c, a)
        Same(t) == \A n \in Subtree(pre.heap, t) :
                     /\ heap[n].Content = pre.heap[n].Content
                     /\ heap[n].Children = pre.heap[n].Children
    IN /\ Subtree(pre.heap, src) \cap Subtree(pre.heap, cpy) = {}
       /\ (apart /\ \A p \in args : Under(p, c)) => Same(src)
       /\ (apart /\ \A p \in args : Under(p, a)) => Same(cpy)

\* C11 witness: a file was copied and the copy was then appended to
C11_Witness ==
  /\ Returned /\ last.prior.op = "Cp" /\ last.op = "EchoWrite" /\ last.flag /\ last.err = "nil"
  /\ last.path = last.prior.path2 /\ last.path # last.prior.path
  /\ SkyResolvePath(pre, last.prior.path).err = "nil"
  /\ SkyResolvePath(Post, last.path).err = "nil"
  /\ heap[SkyResolvePath(Post, last.path).node].Content
       # heap[SkyResolvePath(Post, last.prior.path).node].Content


RECURSIVE Ancestors(_, _, _)
\* n and the nodes its Parent links lead through, at most fuel links up
Ancestors(h, n, fuel) ==
  IF n = Nil THEN {}
  ELSE IF fuel = 0 THEN {n}
  ELSE {n} \cup Ancestors(h, h[n].Parent, fuel - 1)

C13_SkyMvNameTaken ==
  LET src == SkyResolvePath(pre, last.path)
      D == SkyResolvePath(pre, last.path2)
  IN (/\ Returned /\ last.op = "Mv"
      /\ src.err = "nil" /\ D.err = "nil"
      /\ pre.heap[D.node].Type = Directory
      /\ pre.heap[src.node].Name \in DOMAIN pre.heap[D.node].Children
      /\ pre.heap[D.node].Children[pre.heap[src.node].Name] # src.node) =>
       (last.err # "nil" /\ Post = pre)


\* C14: Copy(src, dest, r) whose dest resolves to an existing directory D
\* (D outside src's subtree and without an entry under src's name; r set if
\* src is a directory) returns nil and leaves under D, by src's name, a new
\* node that is a copy of src; no other node is given D's name.
C14_DuskCopyIntoDirectory ==
  LET src == DuskResolvePath(pre, last.path)
      D == DuskResolvePath(pre, last.path2)
      name == pre.heap[src.node].Name
  IN (/\ Returned /\ last.op = "Copy"
      /\ src.err = "nil" /\ D.err = "nil"
      /\ DuskIsDir(pre.heap, D.node)
      /\ DuskIsDir(pre.heap, src.node) => last.flag
      /\ D.node \notin Subtree(pre.heap, src.node)
      /\ name \notin DOMAIN pre.heap[D.node].Children) =>
       /\ last.err = "nil"
       /\ name \in DOMAIN heap[D.node].Children
       /\ heap[D.node].Children[name] > Len(pre.heap)
       /\ SameTree(pre.heap, src.node, heap, heap[D.node].Children[name], Len(pre.heap))
       /\ \A n \in (Len(pre.heap) + 1)..Len(heap) :
            heap[n].Name = pre.heap[D.node].Name => name = pre.heap[D.node].Name


\* C15: cp file1 file2 where file1 and file2 name two regular files
\* succeeds, and afterwards file2 is a regular file whose content is the
\* content file1 had.
C15_GlmCpOverwritesFile ==
  LET f1 == GlmResolvePath(pre, last.path)
      f2 == GlmResolvePath(pre, last.path2)
  IN (/\ Returned /\ last.op = "Cp"
      /\ f1.err = "nil" /\ f2.err = "nil" /\ f1.node # f2.node
      /\ pre.heap[f1.node].Type = RegularFile
      /\ pre.heap[f2.node].Type = RegularFile) =>
       /\ last.err = "nil"
       /\ GlmResolvePath(Post, last.path2).err = "nil"
       /\ heap[GlmResolvePath(Post, last.path2).node].Type = RegularFile
       /\ heap[GlmResolvePath(Post, last.path2).node].Content = pre.heap[f1.node].Content


\* C16: Rmdir(path) and Rm(path, false) on a directory that has at least
\* one child return an error and leave the state as it was.
C16_SkyNonEmptyDirectoryKept ==
  LET d == SkyResolvePath(pre, last.path)
  IN (/\ Returned /\ (last.op = "Rmdir" \/ (last.op = "Rm" /\ ~last.flag))
      /\ d.err = "nil"
      /\ pre.heap[d.node].Type = Directory
      /\ pre.heap[d.node].Children # EmptyMap) =>
       (last.err # "nil" /\ Post = pre)

\* C16 witness: Rmdir has refused a directory that holds an entry
C16_Witness ==
  /\ Returned /\ last.op = "Rmdir" /\ last.err # "nil"
  /\ SkyResolvePath(pre, last.path).err = "nil"
  /\ pre.heap[SkyResolvePath(pre, last.path).node].Type = Directory
  /\ pre.heap[SkyResolvePath(pre, last.path).node].Children # EmptyMap
  /\ SkyResolvePath(pre, last.path).node # Root


\* C17: Rm(path, false) on a directory that has no children and is not Root
\* returns nil and detaches the directory: path no longer resolves.
C17_SkyRmEmptyDirectory ==
  LET d == SkyResolvePath(pre, last.path)
  IN (/\ Returned /\ last.op = "Rm" /\ ~last.flag
      /\ d.err = "nil" /\ d.node # Root
      /\ pre.heap[d.node].Type = Directory
      /\ pre.heap[d.node].Children = EmptyMap) =>
       (last.err = "nil" /\ SkyResolvePath(Post, last.path).err # "nil")


\* C18: Rm(path, false) on a directory returns an error whose text says that
\* the target is a directory, and path resolves to that directory afterwards.
C18_DuskRmDirectoryNoFlag ==
  LET d == DuskResolvePath(pre, last.path)
  IN (/\ Returned /\ last.op = "Rm" /\ ~last.flag
      /\ d.err = "nil" /\ DuskIsDir(pre.heap, d.node)) =>
       /\ last.err \in {"%s: is a directory and not empty", "cannot remove root directory"}
       /\ DuskResolvePath(Post, last.path) = d

\* C19: RmDir(path) on a regular file returns an error, and path resolves to
\* that file afterwards.
C19_DuskRmDirOnFile ==
  LET f == DuskResolvePath(pre, last.path)
  IN (/\ Returned /\ last.op = "RmDir"
      /\ f.err = "nil" /\ ~DuskIsDir(pre.heap, f.node)) =>
       /\ last.err # "nil"
       /\ DuskResolvePath(Post, last.path) = f


\* C20: Mkdir(path, false) on a path that already names an entry (directory
\* or file) returns an error and leaves the state as it was.
C20_SkyMkdirExisting ==
  (Returned /\ last.op = "Mkdir" /\ ~last.flag /\ SkyExists(pre, last.path)) =>
    (last.err # "nil" /\ Post = pre)


\* C21: Mkdir(path, true), path not denoting Root: if a segment of the path
\* exists as a regular file the call returns an error and creates nothing;
\* otherwise it returns nil, creates one directory per missing segment and
\* nothing else, every prefix of the path resolves to a Directory afterwards,
\* and every node that existed keeps its fields and its Children entries.
C21_SkyMkdirParents ==
  LET path == last.path
      prefixes == { SubSeq(path, 1, i) : i \in { j \in 1..Len(path) :
                      path[j] # "/" /\ (j = Len(path) \/ path[j + 1] = "/") } }
      isFile(q) == /\ SkyResolvePath(pre, q).err = "nil"
                   /\ pre.heap[SkyResolvePath(pre, q).node].Type = RegularFile
      missing == { q \in prefixes : SkyResolvePath(pre, q).err # "nil" }
  IN (/\ Returned /\ last.op = "Mkdir" /\ last.flag
      /\ last.err # "cannot create directory at root") =>
       IF \E q \in prefixes : isFile(q) THEN last.err # "nil" /\ Post = pre
       ELSE /\ last.err = "nil"
            /\ \A q \in prefixes :
                 /\ SkyResolvePath(Post, q).err = "nil"
                 /\ heap[SkyResolvePath(Post, q).node].Type = Directory
            /\ Len(heap) = Len(pre.heap) + Cardinality(missing)
            /\ \A n \in (Len(pre.heap) + 1)..Len(heap) : heap[n].Type = Directory
            /\ \A n \in 1..Len(pre.heap) :
                 /\ [heap[n] EXCEPT !.Children = pre.heap[n].Children] = pre.heap[n]
                 /\ \A k \in DOMAIN pre.heap[n].Children :
                      k \in DOMAIN heap[n].Children
                        /\ heap[n].Children[k] = pre.heap[n].Children[k]
            /\ CurrentDir = pre.cur /\ PrevDir = pre.prev


\* C22: Touch(path) on a path that names an existing directory returns an
\* error and leaves the state as it was.
C22_SkyTouchDirectory ==
  LET d == SkyResolvePath(pre, last.path)
  IN (/\ Returned /\ last.op = "Touch"
      /\ d.err = "nil" /\ pre.heap[d.node].Type = Directory) =>
       (last.err # "nil" /\ Post = pre)


C24_SkyEchoAppend ==
  LET f == last.path
      sp == FilepathSplit(f)
      isDir(s, q) == /\ SkyResolvePath(s, q).err = "nil"
                     /\ s.heap[SkyResolvePath(s, q).node].Type = Directory
  IN /\ (/\ Returned /\ last.op = "EchoWrite" /\ last.flag
          /\ last.prior.op = "EchoWrite" /\ last.prior.path = f
          /\ ~isDir(last.prior.pre, f)) =>
           /\ last.err = "nil"
           /\ SkyCat(Post, f) = [out |-> last.prior.text \o Newline \o last.text \o Newline,
                                 err |-> "nil"]
     /\ (/\ Returned /\ last.op = "EchoWrite" /\ last.flag
          /\ SkyResolvePath(pre, f).err # "nil"
          /\ isDir(pre, sp.dir)) =>
           /\ last.err = "nil"
           /\ SkyCat(Post, f) = [out |-> last.text \o Newline, err |-> "nil"]

\* C24 witness: text has been appended to the file the call before wrote
C24_Witness ==
  /\ Returned /\ last.op = "EchoWrite" /\ last.flag /\ last.err = "nil"
  /\ last.prior.op = "EchoWrite" /\ last.prior.path = last.path
  /\ last.prior.text # last.text
  /\ SkyCat(Post, last.path).err = "nil"
  /\ Len(SkyCat(Post, last.path).out) = 4


RECURSIVE SlashesAs(_, _)
\* the path p with every "/" written as sep
SlashesAs(p, sep) ==
  IF p = <<>> THEN <<>>
  ELSE (IF Head(p) = "/" THEN sep ELSE <<Head(p)>>) \o SlashesAs(Tail(p), sep)

\* spellings of p with '.' segments inserted, separators repeated and
\* trailing separators appended
Respellings(p) ==
  { front \o SlashesAs(p, sep) \o back :
      front \in (IF Head(p) = "/" THEN {<<>>} ELSE {<<>>, <<".", "/">>}),
      sep \in {<<"/">>, <<"/", "/">>, <<"/", ".", "/">>},
      back \in {<<>>, <<"/">>, <<"/", "/">>, <<"/", ".">>} }

\* C25: in every state in which a command is read, ResolvePath gives the
\* same outcome (the same node, or an error both times) for a path and for
\* each of its respellings with '.' segments, repeated '/' and trailing '/'.
C25_SkyResolveNormalises ==
  ~last.rec =>
  \A p \in Paths \cup {HomePath, <<"a", "/", ".", ".", "/", "b">>} : \A v \in Respellings(p) :
    LET r == SkyResolvePath(Cur, p)
        w == SkyResolvePath(Cur, v)
    IN IF r.err = "nil" THEN w = r ELSE w.err # "nil"

\* C25 witness: ".//a//.//b/." resolves to a node below the working
\* directory, as a/b does
C25_Witness ==
  /\ ~last.rec
  /\ SkyResolvePath(Cur, <<".", "/", "a", "/", ".", "/", "b", "/", ".">>).err = "nil"
  /\ SkyResolvePath(Cur, <<".", "/", "a", "/", ".", "/", "b", "/", ".">>).node
       \notin {Root, CurrentDir}
  /\ SkyResolvePath(Cur, <<"/", "/", "home", "/", "/", "user", "/", "/">>).err = "nil"


\* C26: in every state in which a command is read, ResolvePath on a path of
\* k >= 1 '..' segments returns no error; the absolute form returns Root,
\* and the relative form, from a working directory d Parent links below
\* Root, returns the ancestor that is max(d - k, 0) links below Root.
C26_SkyResolveDotDots ==
  ~last.rec =>
    \A k \in 1..(Len(heap) + 1) :
      LET ups == [i \in 1..(3 * k - 1) |-> IF i % 3 = 0 THEN "/" ELSE "."]
          rel == SkyResolvePath(Cur, ups)
          abs == SkyResolvePath(Cur, Slash \o ups)
          above == Ancestors(heap, CurrentDir, Len(heap))
          d == Cardinality(above) - 1
      IN /\ abs = [node |-> Root, err |-> "nil"]
         /\ rel.err = "nil"
         /\ Root \in above =>
              /\ rel.node \in above
              /\ Cardinality(Ancestors(heap, rel.node, Len(heap))) - 1
                   = (IF d > k THEN d - k ELSE 0)

\* C26 witness: from a working directory three links below Root, "../.."
\* is the directory one link below Root and "../../../.." is Root
C26_Witness ==
  /\ ~last.rec
  /\ Root \in Ancestors(heap, CurrentDir, Len(heap))
  /\ Cardinality(Ancestors(heap, CurrentDir, Len(heap))) = 4
  /\ heap[SkyResolvePath(Cur, <<".", ".", "/", ".", ".">>).node].Parent = Root
  /\ SkyResolvePath(Cur, <<".", ".", "/", ".", ".", "/", ".", ".", "/", ".", ".">>).node = Root


\* C27: a successful Cd(p) with p other than "-" leaves the old working
\* directory in PrevDir and makes CurrentDir the node ResolvePath(p) returned
\* (p = "" resolved as "~"); a successful Cd("-") swaps CurrentDir and
\* PrevDir, so that Cd("-") after the Cd("..") of a fresh session ends in
\* /home/user.  Cd changes no node.
C27_SkyCdTracksPrevious ==
  (Returned /\ last.op = "Cd" /\ last.err = "nil") =>
    /\ heap = pre.heap
    /\ last.path # Dash =>
         /\ PrevDir = pre.cur
         /\ CurrentDir = SkyResolvePath(pre, IF last.path = <<>> THEN Tilde ELSE last.path).node
    /\ last.path = Dash =>
         /\ CurrentDir = pre.prev
         /\ PrevDir = pre.cur
         /\ pre \in { [heap |-> o.heap, cur |-> o.cur, prev |-> o.prev] :
                        o \in SkyCd(SkyNewFileSystem, DotDot) } =>
              SkyGetPath(heap, CurrentDir).path = HomePath

\* C27 witness: Cd("-") returned in the state the Cd("..") of a fresh session
\* leaves, and the session is back in /home/user with /home as PrevDir
C27_Witness ==
  /\ Returned /\ last.op = "Cd" /\ last.err = "nil" /\ last.path = Dash
  /\ pre.heap = SkyNewFileSystem.heap
  /\ pre.prev = SkyNewFileSystem.cur
  /\ pre.cur = SkyNewFileSystem.heap[SkyNewFileSystem.cur].Parent
  /\ SkyGetPath(heap, CurrentDir).path = HomePath
  /\ SkyGetPath(heap, PrevDir).path = <<"/", "home">>


\* C28: a cd that reports an error (path not found, target a regular file,
\* home or user directory missing for cd without argument) leaves
\* CurrentDir and PrevDir as they were.
C28_GlmCdErrorKeepsDirs ==
  (Returned /\ last.op = "Cd" /\ last.err # "nil") =>
    /\ CurrentDir = pre.cur
    /\ PrevDir = pre.prev

\* C28 counterexample: with /home removed and the session in /, where it
\* came from /home/user, cd without argument reports the home directory
\* missing, stays in / and has overwritten PrevDir with /
C28_Counterexample ==
  /\ Returned /\ last.op = "Cd" /\ last.path = <<>>
  /\ last.err = "cd: home directory not found"
  /\ pre.cur = Root /\ pre.prev = GlmNewFileSystem.cur
  /\ CurrentDir = Root
  /\ PrevDir = Root


\* C29: in every state every RegularFile node has Size equal to the length
\* of its Content, and UpdateContent applied to a Directory node changes
\* no field of any node.
C29_GlmSizeIsLength ==
  \A n \in 1..Len(heap) :
    /\ heap[n].Type = RegularFile => heap[n].Size = Len(heap[n].Content)
    /\ heap[n].Type = Directory =>
         \A content \in Texts \cup {<<>>} : GlmUpdateContent(heap, n, content) = heap

\* C29 witness: an editor save replaced the two-byte content of a file by
\* one byte and Size followed, while the directories hold no content
C29_Witness ==
  /\ Returned /\ last.op = "Edit" /\ last.flag /\ last.err = "nil"
  /\ \E n \in 1..Len(pre.heap) :
       /\ pre.heap[n].Type = RegularFile
       /\ pre.heap[n].Size = 2
       /\ heap[n].Content = last.text
       /\ heap[n].Size = 1


\* C30: in every state every Directory node has empty Content and Size 0
\* and every RegularFile node has no children; in particular an Echo whose
\* path names an existing directory stores nothing on that directory.
C30_DuskContentOnlyOnFiles ==
  \A n \in 1..Len(heap) :
    /\ heap[n].Type = Directory => (heap[n].Content = <<>> /\ heap[n].Size = 0)
    /\ heap[n].Type = RegularFile => DOMAIN heap[n].Children = {}

\* C30 counterexample: Echo to "/" returned nil and the root directory now
\* holds the echoed line as its Content, with its Size
C30_Counterexample ==
  /\ Returned /\ last.op = "Echo" /\ last.path = Slash /\ ~last.flag /\ last.err = "nil"
  /\ pre.heap[Root].Content = <<>>
  /\ heap[Root].Type = Directory
  /\ heap[Root].Content = last.text \o Newline
  /\ heap[Root].Size = Len(last.text \o Newline)


\* byte order of the name tokens: "." < "a" < "b" < "home" < "user"
TokenRank(tok) ==
  CASE tok = "." -> 1 [] tok = "a" -> 2 [] tok = "b" -> 3 [] tok = "home" -> 4
    [] tok = "user" -> 5 [] OTHER -> 0

\* a sorts strictly before b in lexicographic order
NameLess(a, b) ==
  \E i \in 1..Len(b) :
    /\ \A j \in 1..(i - 1) : j <= Len(a) /\ a[j] = b[j]
    /\ i > Len(a) \/ TokenRank(a[i]) < TokenRank(b[i])

\* C31: Ls(path, false, all) on a directory returns exactly the names of
\* its children, without the names that begin with "." when all is false,
\* in lexicographically sorted order, and a second call in the same state
\* returns the same text.
C31_SkyLsSorted ==
  (Returned /\ last.op = "Ls" /\ last.err = "nil") =>
    LET dir == SkyResolvePath(pre, IF last.path = <<>> THEN Dot ELSE last.path).node
        names == { n \in DOMAIN pre.heap[dir].Children : last.flag \/ ~HasPrefix(n, Dot) }
    IN /\ \E o \in RangeOrders(names) :
            /\ \A i, j \in DOMAIN o : i < j => NameLess(o[i], o[j])
            /\ last.text = JoinSpace(o)
       /\ \A r \in SkyLs(pre, last.path, last.flag) : r.out = last.text

\* C31 counterexample: with the files a and b in the working directory, Ls
\* returned "b a"
C31_Counterexample ==
  /\ Returned /\ last.op = "Ls" /\ last.path = <<>> /\ ~last.flag /\ last.err = "nil"
  /\ DOMAIN heap[CurrentDir].Children = { S("a"), S("b") }
  /\ last.text = <<"b", " ", "a">>


\* C32: in every state in which a command is read and for all nodes vf and
\* child, AddChild(child) on vf fails and changes nothing when vf is not a
\* Directory or vf.Children has an entry named child.Name; otherwise it
\* returns nil, sets child.Parent to vf, inserts child under child.Name and
\* changes nothing else.  So an AddChild or RemoveChild gives no regular
\* file a child and replaces no existing entry.
C32_GlmAddChildGuards ==
  ~last.rec =>
    \A vf, child \in 1..Len(heap) :
      LET r == GlmAddChild(heap, vf, child)
          name == heap[child].Name
          had == DOMAIN heap[vf].Children IN
        /\ (heap[vf].Type # Directory \/ name \in had) => (r.err # "nil" /\ r.heap = heap)
        /\ (heap[vf].Type = Directory /\ name \notin had) =>
             /\ r.err = "nil"
             /\ r.heap[child].Parent = vf
             /\ r.heap[vf].Children = MapPut(heap[vf].Children, name, child)
             /\ \A n \in 1..Len(heap) : n \notin {vf, child} => r.heap[n] = heap[n]
        /\ heap[vf].Type = RegularFile => r.heap[vf].Children = heap[vf].Children
        /\ \A k \in had : r.heap[vf].Children[k] = heap[vf].Children[k]
        /\ LET d == GlmRemoveChild(heap, vf, name) IN
             /\ heap[vf].Type = RegularFile => d.heap = heap
             /\ \A k \in DOMAIN d.heap[vf].Children :
                  k \in had /\ d.heap[vf].Children[k] = heap[vf].Children[k]

\* C32 witness: a command is read in a state with a regular file f stored
\* in a directory and a directory d that holds no entry of f's name:
\* AddChild of f is refused by the directory that holds it and by f
\* itself, and accepted by d, which becomes the Parent of f
C32_Witness ==
  /\ ~last.rec
  /\ \E f, d \in 2..Len(heap) :
       /\ heap[f].Type = RegularFile
       /\ heap[f].Parent # Nil
       /\ heap[f].Parent # d
       /\ GlmAddChild(heap, heap[f].Parent, f).err = "file or directory '%s' already exists"
       /\ GlmAddChild(heap, f, f).err = "cannot add child to non-directory"
       /\ GlmAddChild(heap, d, f).err = "nil"
       /\ GlmAddChild(heap, d, f).heap[f].Parent = d

\* C33: in every state every node other than Root has a Name that is one
\* path segment: not empty, without "/", and neither "." nor "..".
C33_GlmNamesAreSegments ==
  \A n \in 2..Len(heap) :
    /\ heap[n].Name # <<>>
    /\ ~ContainsSlash(heap[n].Name)
    /\ heap[n].Name \notin {Dot, DotDot}

\* C33 counterexample: touch ".." in a fresh session returned without an
\* error and the working directory holds a new regular file named ".."
C33_Counterexample ==
  /\ Returned /\ last.op = "Touch" /\ last.path = DotDot /\ last.err = "nil"
  /\ pre = [heap |-> GlmNewFileSystem.heap, cur |-> GlmNewFileSystem.cur, prev |-> GlmNewFileSystem.prev]
  /\ Len(heap) = Len(pre.heap) + 1
  /\ heap[Len(heap)].Name = DotDot
  /\ heap[Len(heap)].Type = RegularFile
  /\ heap[CurrentDir].Children = MapPut(EmptyMap, DotDot, Len(heap))


\* ------------------------------------------------- glm-4.5: ParseCommand
\* the characters of a command line: a letter, the space, the double quote,
\* the backslash, and a letter that takes two bytes in UTF-8
Runes == {"a", " ", "\"", "\\", "é"}

\* the number of bytes of a rune
RuneWidth(r) == IF r = "é" THEN 2 ELSE 1

RECURSIVE ByteLen(_)
\* len(input)
ByteLen(input) == IF input = <<>> THEN 0 ELSE RuneWidth(Head(input)) + ByteLen(Tail(input))

RECURSIVE GlmParseLoop(_, _, _, _)
\* for i, r := range input: k is the position of the rune r and i the byte
\* offset at which it starts
GlmParseLoop(input, k, i, st) ==
  IF k > Len(input) THEN st
  ELSE LET r == input[k] IN
    IF st.escapeNext
      THEN GlmParseLoop(input, k + 1, i + RuneWidth(r),
                        [st EXCEPT !.current = Append(@, r), !.escapeNext = FALSE])
    ELSE LET sw == CASE r = "\\" -> [st EXCEPT !.escapeNext = TRUE]
                     [] r = "\"" -> [st EXCEPT !.inQuotes = ~@]
                     [] r = " " -> IF st.inQuotes THEN [st EXCEPT !.current = Append(@, r)]
                                   ELSE IF st.current # <<>>
                                     THEN [st EXCEPT !.args = Append(@, st.current), !.current = <<>>]
                                   ELSE st
                     [] OTHER -> [st EXCEPT !.current = Append(@, r)]
             end == IF i = ByteLen(input) - 1 /\ ~sw.inQuotes /\ sw.current # <<>>
                      THEN [sw EXCEPT !.args = Append(@, sw.current)]
                    ELSE sw
         IN GlmParseLoop(input, k + 1, i + RuneWidth(r), end)

\* t.ParseCommand(input)
GlmParseCommand(input) ==
  LET st == GlmParseLoop(input, 1, 0,
                         [args |-> <<>>, current |-> <<>>, inQuotes |-> FALSE, escapeNext |-> FALSE]) IN
    IF st.inQuotes THEN [cmd |-> <<>>, args |-> <<>>, err |-> "unclosed quotes"]
    ELSE IF st.escapeNext THEN [cmd |-> <<>>, args |-> <<>>, err |-> "incomplete escape sequence"]
    ELSE IF st.args = <<>> THEN [cmd |-> <<>>, args |-> <<>>, err |-> "nil"]
    ELSE [cmd |-> Head(st.args), args |-> Tail(st.args), err |-> "nil"]

\* the command lines of at most MaxInput characters
Inputs == UNION { [1..n -> Runes] : n \in 0..MaxInput }

\* a command line has been read into last.text
ParseInit ==
  /\ heap = <<>>
  /\ CurrentDir = Nil
  /\ PrevDir = Nil
  /\ pre = NoPre
  /\ calls = 0
  /\ \E input \in Inputs : last = [NoCall EXCEPT !.op = "input", !.text = input]

\* ParseCommand is called on it: last.path holds the command, last.path2
\* the arguments
ParseCall ==
  /\ last.op = "input"
  /\ LET r == GlmParseCommand(last.text) IN
       last' = [last EXCEPT !.op = "ParseCommand", !.path = r.cmd, !.path2 = r.args,
                            !.err = r.err, !.rec = TRUE]
  /\ calls' = calls + 1
  /\ UNCHANGED <<heap, CurrentDir, PrevDir, pre>>

ParseNext == ParseCall

SpecParse == ParseInit /\ [][ParseNext]_vars

RECURSIVE Tokenize(_, _)
\* the tokens of a command line, read left to right: st holds the finished
\* tokens, the token being read and whether a quote or an escape is open
Tokenize(input, st) ==
  IF input = <<>> THEN st
  ELSE LET r == Head(input) IN
    Tokenize(Tail(input),
      IF st.escapeNext THEN [st EXCEPT !.current = Append(@, r), !.escapeNext = FALSE]
      ELSE IF r = "\\" THEN [st EXCEPT !.escapeNext = TRUE]
      ELSE IF r = "\"" THEN [st EXCEPT !.inQuotes = ~@]
      ELSE IF r = " " /\ ~st.inQuotes
        THEN [st EXCEPT !.args = IF st.current # <<>> THEN Append(@, st.current) ELSE @,
                        !.current = <<>>]
      ELSE [st EXCEPT !.current = Append(@, r)])

\* C34: ParseCommand returns an error exactly when the input ends inside an
\* open double quote or directly after a backslash; otherwise the command
\* and the arguments it returns are, in order, the tokens of the input,
\* the one the input ends with included.
C34_GlmParseCommandTokens ==
  last.op = "ParseCommand" =>
    LET st == Tokenize(last.text, [args |-> <<>>, current |-> <<>>, inQuotes |-> FALSE,
                                   escapeNext |-> FALSE])
        tokens == IF st.current # <<>> THEN Append(st.args, st.current) ELSE st.args
    IN /\ last.err # "nil" <=> (st.inQuotes \/ st.escapeNext)
       /\ last.err = "nil" =>
            (IF tokens = <<>> THEN last.path = <<>> /\ last.path2 = <<>>
             ELSE last.path = Head(tokens) /\ last.path2 = Tail(tokens))

\* C34 counterexample: for the line `a \a` ParseCommand returned the command
\* a and no argument: the final token, which ends in an escaped character,
\* is lost
C34_Counterexample ==
  /\ last.op = "ParseCommand"
  /\ last.text = <<"a", " ", "\\", "a">>
  /\ last.err = "nil"
  /\ last.path = <<"a">>
  /\ last.path2 = <<>>

\* C35: a Cp(source, dest, true) whose source is a directory returns, for
\* every destination, the source itself and directories inside the source
\* included.
C35_SkyCpRecursiveReturns ==
  (last.rec /\ last.op = "Cp" /\ last.flag) => last.err \notin Dead

\* C35 counterexample: with an empty directory a in the working directory,
\* Cp("a", "a", true) does not return: the copy a/a is stored in a before
\* the loop over the children of a starts, is copied in its turn, and so on
\* until the stack is exhausted
C35_Counterexample ==
  /\ last.rec /\ last.op = "Cp" /\ last.flag
  /\ last.path = S("a") /\ last.path2 = S("a")
  /\ SkyResolvePath(pre, S("a")).err = "nil"
  /\ pre.heap[SkyResolvePath(pre, S("a")).node].Type = Directory
  /\ pre.heap[SkyResolvePath(pre, S("a")).node].Children = EmptyMap
  /\ last.err = "PANIC"

\* C36: in every state Pwd() returns a path that ResolvePath resolves,
\* without an error, to CurrentDir: the working directory is attached to
\* the tree under the path pwd prints.
C36_SkyPwdResolves ==
  /\ ~SkyGetPath(heap, CurrentDir).hang
  /\ SkyResolvePath(Cur, SkyGetPath(heap, CurrentDir).path) = [node |-> CurrentDir, err |-> "nil"]

\* C36 counterexample: Rm("..", true) in a fresh session removed /home
\* from the root and returned nil; the working directory is still the node
\* user, Pwd() is "/home/user" and ResolvePath of it fails
C36_Counterexample ==
  /\ Returned /\ last.op = "Rm" /\ last.path = DotDot /\ last.flag /\ last.err = "nil"
  /\ pre = [heap |-> SkyNewFileSystem.heap, cur |-> SkyNewFileSystem.cur, prev |-> SkyNewFileSystem.prev]
  /\ CurrentDir = pre.cur
  /\ SkyGetPath(heap, CurrentDir).path = HomePath
  /\ SkyResolvePath(Cur, HomePath).err # "nil"

\* C37: in every state, for every directory d reachable from Root and every
\* entry (k, c) of d.Children, c.Name is k and c.Parent is d.
C37_SkyChildrenConsistent ==
  \A d \in Subtree(heap, Root) :
    heap[d].Type = Directory =>
      \A k \in DOMAIN heap[d].Children :
        /\ heap[heap[d].Children[k]].Name = k
        /\ heap[heap[d].Children[k]].Parent = d

\* C37 witness: a Mv gave a directory that has children a new name, and
\* the directory is stored under that name in the parent its Parent link
\* names
C37_Witness ==
  /\ Returned /\ last.op = "Mv" /\ last.err = "nil"
  /\ \E n \in Subtree(heap, Root) \cap (1..Len(pre.heap)) :
       /\ heap[n].Type = Directory
       /\ heap[n].Children # EmptyMap
       /\ heap[n].Name # pre.heap[n].Name
       /\ heap[n].Parent \in Subtree(heap, Root)
       /\ heap[n].Name \in DOMAIN heap[heap[n].Parent].Children
       /\ heap[heap[n].Parent].Children[heap[n].Name] = n

====
